---- MODULE Spec2Model ----
(***************************************************************************)
(* Model of modules/sspBCBidAdapter.js: the sspBC bid adapter's hooks      *)
(* (buildRequests, interpretResponse, onBidWon, onTimeout, getUserSyncs)   *)
(* over the module-level state oneCodeDetection, adUnitsCalled,            *)
(* adSizesCalled and pageView; and of the adf adapter that follows it in   *)
(* the same file (buildRequests, interpretResponse), which has no state.   *)
(*                                                                         *)
(* Encoding of JavaScript values:                                          *)
(*   - a string is a TLA+ string; a string-valued field that is undefined  *)
(*     holds Undefined;                                                    *)
(*   - an optional number, object or list is a sequence of length <= 1     *)
(*     (None for undefined, Some(v) otherwise);                            *)
(*   - prices are integers, in tenths of a currency unit (15 is 1.5);      *)
(*   - a number in a field that normally holds a string (params.id) is    *)
(*     NumberValue(n), a text no string of the model begins like.         *)
(* Response fields that interpretResponse copies through unread (adomain,  *)
(* ext.pricepl, ext.pubid, ext.adlabel, ext.vurls) are left out.           *)
(***************************************************************************)
EXTENDS Integers, Sequences, FiniteSets, TLC

\* ------------------------------------------------------------------ bounds
\* bid requests per auction
MaxBids == 2
\* wire bids per response
MaxSeatBids == 2
\* largest id of a native asset
MaxAssetId == 12

\* ------------------------------------------------------- program constants
TMAX == 450
PAD_WIDTH == 3
DEFAULT_EXP == 300
ADF_TTL == 360
BIDDER_CODE == "sspBC"
DEFAULT_CURRENCY == "PLN"
NOTIFY_URL == "https://ssp.wp.pl/bidder/notify"
SYNC_URL == "https://ssp.wp.pl/bidder/usersync"

\* --------------------------------------------------------- value encoding
Undefined == "<undefined>"
None == <<>>
Some(v) == <<v>>
IsSome(o) == Len(o) = 1

\* the number n where a string is expected
NumberValue(n) == "#" \o ToString(n)
IsNumber(s) == s # Undefined /\ Len(s) >= 1 /\ SubSeq(s, 1, 1) = "#"

\* JavaScript truthiness of a string-or-undefined value
Truthy(s) == s \notin {Undefined, "", NumberValue(0)}

\* `${v}` and 'x' + v: undefined prints as "undefined"
Str(s) == IF s = Undefined THEN "undefined" ELSE s

\* a || b on string-or-undefined values
OrElse(a, b) == IF Truthy(a) THEN a ELSE b

\* /^prefix/ test
StartsWith(s, p) == Len(s) >= Len(p) /\ SubSeq(s, 1, Len(p)) = p

\* strIncludes(s, sub): sub occurs somewhere in s
strIncludes(s, sub) ==
  \E i \in 1..(Len(s) - Len(sub) + 1) : SubSeq(s, i, i + Len(sub) - 1) = sub

\* String.prototype.padStart(n, c) with a one-character c
RECURSIVE padStart(_, _, _)
padStart(s, n, c) == IF Len(s) >= n THEN s ELSE padStart(c \o s, n, c)

\* ------------------------------------------------------------ bid requests
EmptyParams == [id |-> Undefined, siteId |-> Undefined]

\* bid.params as the host hands it over: an object, or (in timeout data) an
\* array of objects; items holds the object, or the array's elements
ParamsObject(p) == [isArray |-> FALSE, items |-> <<p>>]
ParamsArray(ps) == [isArray |-> TRUE, items |-> ps]
ParamsMissing == [isArray |-> FALSE, items |-> <<>>]

BidId(k) == "b" \o ToString(k)
AdUnitCode(k) == "div-" \o ToString(k)

OneCodeParams == ParamsObject(EmptyParams)
ExplicitParams(id, siteId) == ParamsObject([id |-> id, siteId |-> siteId])

\* The classes of input a specification draws from.
Scenarios == {"ids", "price", "site", "labels", "floors", "media", "native", "malformed",
              "pageview", "store", "adf"}

\* params of the k-th bid request of an auction
ParamChoices(s, k) ==
  CASE s = "ids" ->
         IF k = 1
           THEN {ExplicitParams(Undefined, Undefined), ExplicitParams("5", Undefined),
                 ExplicitParams(Undefined, "7"), ExplicitParams("", "7"),
                 ExplicitParams("5", "7"), ExplicitParams("005", "7"),
                 ExplicitParams("1234", "7")}
           ELSE {OneCodeParams, ExplicitParams("5", "7")}
    [] s = "price" ->
         IF k = 1 THEN {OneCodeParams, ExplicitParams("5", "7")} ELSE {OneCodeParams}
    [] s = "site" ->
         IF k <= 2
           THEN {OneCodeParams, ExplicitParams(padStart(ToString(k), PAD_WIDTH, "0"), "7")}
           ELSE {OneCodeParams}
    [] s = "malformed" ->
         IF k <= 2 THEN {OneCodeParams, ExplicitParams(NumberValue(5), "7")}
         ELSE {OneCodeParams}
    [] OTHER -> {OneCodeParams}

\* sizes of the k-th bid request
SizeChoices(s, k) ==
  CASE s = "labels" ->
         CASE k = 1 -> {<<>>, << <<300, 250>>, <<728, 90>> >>, << <<300, 250>>, <<300, 600>> >>}
           [] k = 2 -> {<< <<300, 250>>, <<728, 90>> >>, << <<300, 250>>, <<300, 600>> >>}
           [] OTHER -> {<< <<300, 250>>, <<728, 90>> >>}
    [] s = "floors" ->
         CASE k = 1 -> {<< <<300, 250>>, <<728, 90>> >>}
           [] k = 2 -> {<<>>, << <<300, 250>> >>}
           [] OTHER -> {<< <<300, 250>> >>}
    [] OTHER -> {<< <<300, 250>> >>}

\* ad unit of the k-th bid request: its own, or (an ad unit with two bids)
\* that of the first bid request
AdUnitChoices(s, k) ==
  CASE s = "labels" -> {AdUnitCode(k), AdUnitCode(1)}
    [] OTHER -> {AdUnitCode(k)}

\* the key of a size in a floor table
SizeKey(size) == ToString(size[1]) \o "x" \o ToString(size[2])

\* bidRequest.getFloor as a table of its answers: per banner size, for native
\* and for video, each the floor (in tenths) or None for an answer without a
\* floor
FloorTable(f300x250, f728x90, native, video) ==
  [banner |-> [z \in {"300x250", "728x90"} |-> IF z = "300x250" THEN f300x250 ELSE f728x90],
   native |-> native,
   video |-> video]

\* getFloor of the k-th bid request: None when it has no floor function
FloorChoices(s, k) ==
  CASE s = "floors" ->
         CASE k = 1 ->
                {None}
                \cup {Some(FloorTable(b[1], b[2], o[1], o[2])) :
                        b \in {<<Some(5), Some(8)>>, <<Some(8), None>>, <<None, None>>},
                        o \in {<<None, None>>, <<Some(9), None>>, <<None, Some(6)>>}}
           [] k = 2 -> {Some(FloorTable(Some(5), None, None, Some(3)))}
           [] OTHER -> {None}
    [] OTHER -> {None}

\* the k-th bid request of an auction; the host gives each its own bid id
BidRequestChoices(s, k) ==
  {[bidId |-> BidId(k), adUnitCode |-> u, sizes |-> z, params |-> p, getFloor |-> f] :
     u \in AdUnitChoices(s, k), z \in SizeChoices(s, k), p \in ParamChoices(s, k),
     f \in FloorChoices(s, k)}

RECURSIVE BidRequestListsOfLen(_, _)
BidRequestListsOfLen(s, n) ==
  IF n = 0 THEN {<<>>}
  ELSE {Append(l, b) : l \in BidRequestListsOfLen(s, n - 1), b \in BidRequestChoices(s, n)}

\* validBidRequests
BidRequestLists(s) == UNION {BidRequestListsOfLen(s, n) : n \in 0..MaxBids}

\* site id of the first-party data (bidderRequest.ortb2.site.id)
FpdSiteIds(s) == {Undefined}
Pathnames(s) == IF s = "pageview" THEN {"/", "/a"} ELSE {"/"}
\* config.getConfig('currency.adServerCurrency')
Currencies(s) == IF s = "floors" THEN {Undefined, "USD"} ELSE {Undefined}
\* values Math.random() can produce for the page-view id
PageViewIds(s) == IF s = "pageview" THEN {"pv1", "pv2"} ELSE {"pv1"}

\* ---------------------------------------------------------------- state
VARIABLES
  scenario,          \* the input class of this specification (never changes)
  oneCodeDetection,  \* bid id -> <<site id, slot id>>
  adUnitsCalled,     \* ad-unit code -> pbsize label
  adSizesCalled,     \* size -> number of ad units first seen with it
  pageView,          \* [id, path, sn]
  request,           \* the request built and not yet answered (None or Some)
  call               \* the hook call the host is looking at: [op, args, ret]

vars == <<scenario, oneCodeDetection, adUnitsCalled, adSizesCalled, pageView,
          request, call>>

NoCall == [op |-> "none"]
Idle == call.op = "none"

\* ------------------------------------------------------------ converter.imp
\* 'w x h' of the largest size (the later one on a tie), '1x1' without sizes
RECURSIVE LargestSize(_, _, _)
LargestSize(sizes, i, prev) ==
  IF i > Len(sizes) THEN prev
  ELSE LargestSize(sizes, i + 1,
         IF prev[1] * prev[2] <= sizes[i][1] * sizes[i][2] THEN sizes[i] ELSE prev)

ImpSize(sizes) ==
  IF Len(sizes) > 0
    THEN LET m == LargestSize(sizes, 2, sizes[1])
         IN ToString(m[1]) \o "x" \o ToString(m[2])
    ELSE "1x1"

\* const { params = {} } = bidRequest; const { id, siteId } = params
RequestParams(bidRequest) ==
  LET p == bidRequest.params
  IN IF ~p.isArray /\ Len(p.items) = 1 THEN p.items[1] ELSE EmptyParams

\* mutant of ImpId: the explicit id is sent as it is
ImpIdUnpadded(bidRequest) ==
  LET p == RequestParams(bidRequest)
  IN IF Truthy(p.id) /\ Truthy(p.siteId) THEN p.id ELSE "bidid-" \o bidRequest.bidId

\* mutant of ImpId: the fallback id leaves the bid id out
ImpIdSharedFallback(bidRequest) ==
  LET p == RequestParams(bidRequest)
  IN IF Truthy(p.id) /\ Truthy(p.siteId) THEN padStart(p.id, PAD_WIDTH, "0") ELSE "bidid-"

\* id.padStart is not a function when params.id is a number
ImpIdThrows(bidRequest) ==
  LET p == RequestParams(bidRequest)
  IN Truthy(p.id) /\ Truthy(p.siteId) /\ IsNumber(p.id)

\* imp.id = id && siteId ? id.padStart(3, '0') : 'bidid-' + bidId
ImpId(bidRequest) ==
  LET p == RequestParams(bidRequest)
  IN IF Truthy(p.id) /\ Truthy(p.siteId)
       THEN padStart(p.id, PAD_WIDTH, "0")
       ELSE "bidid-" \o bidRequest.bidId

\* getCurrency(): the ad-server currency of the configuration, or the default
getCurrency(adServerCurrency) == OrElse(adServerCurrency, DEFAULT_CURRENCY)

\* const { floor = 0 } = slot.getFloor(query)
FloorOrZero(answer) == IF IsSome(answer) THEN answer[1] ELSE 0

Max2(a, b) == IF a > b THEN a ELSE b

\* slot.sizes.reduce((prev, next) => prev > currentFloor ? prev : currentFloor, 0)
RECURSIVE BannerFloor(_, _, _, _)
BannerFloor(table, sizes, i, prev) ==
  IF i > Len(sizes) THEN prev
  ELSE LET currentFloor == FloorOrZero(table.banner[SizeKey(sizes[i])])
       IN BannerFloor(table, sizes, i + 1, IF prev > currentFloor THEN prev ELSE currentFloor)

\* mutant of getHighestFloor: the banner floor is that of the last size
getHighestFloorLastSize(slot, currency) ==
  IF IsSome(slot.getFloor)
    THEN LET table == slot.getFloor[1]
             bannerFloor == IF Len(slot.sizes) > 0
                              THEN FloorOrZero(table.banner[SizeKey(slot.sizes[Len(slot.sizes)])])
                              ELSE 0
         IN [floor |-> Max2(bannerFloor, Max2(FloorOrZero(table.native), FloorOrZero(table.video))),
             currency |-> currency]
    ELSE [floor |-> 0, currency |-> currency]

\* getHighestFloor(slot), with the currency getCurrency() returns
getHighestFloor(slot, currency) ==
  IF IsSome(slot.getFloor)
    THEN LET table == slot.getFloor[1]
             bannerFloor == IF Len(slot.sizes) > 0
                              THEN BannerFloor(table, slot.sizes, 1, 0)
                              ELSE 0
             nativeFloor == FloorOrZero(table.native)
             videoFloor == FloorOrZero(table.video)
         IN [floor |-> Max2(bannerFloor, Max2(nativeFloor, videoFloor)),
             currency |-> currency]
    ELSE [floor |-> 0, currency |-> currency]

\* mutant of ConverterImp: the per-size counter is never advanced
ConverterImpNoCount(bidRequest, units, sizesCalled, currency) ==
  LET code == bidRequest.adUnitCode
      impSize == ImpSize(bidRequest.sizes)
      isNew == code \notin DOMAIN units
      sizes2 == IF isNew
                  THEN [z \in DOMAIN sizesCalled \cup {impSize} |-> 1]
                  ELSE sizesCalled
      units2 == IF isNew
                  THEN [u \in DOMAIN units \cup {code} |->
                          IF u = code THEN impSize \o "_" \o ToString(1) ELSE units[u]]
                  ELSE units
  IN [imp |-> [id |-> ImpId(bidRequest), tagid |-> code,
               bidfloor |-> getHighestFloor(bidRequest, currency).floor,
               bidfloorcur |-> getHighestFloor(bidRequest, currency).currency,
               pbsize |-> units2[code]],
      adUnitsCalled |-> units2,
      adSizesCalled |-> sizes2]

\* mutant of ConverterImp: every build counts as the first of its ad unit
ConverterImpEveryBuildNew(bidRequest, units, sizesCalled, currency) ==
  LET code == bidRequest.adUnitCode
      impSize == ImpSize(bidRequest.sizes)
      count == IF impSize \in DOMAIN sizesCalled THEN sizesCalled[impSize] + 1 ELSE 1
      sizes2 == [z \in DOMAIN sizesCalled \cup {impSize} |->
                   IF z = impSize THEN count ELSE sizesCalled[z]]
      units2 == [u \in DOMAIN units \cup {code} |->
                   IF u = code THEN impSize \o "_" \o ToString(count) ELSE units[u]]
  IN [imp |-> [id |-> ImpId(bidRequest), tagid |-> code,
               bidfloor |-> getHighestFloor(bidRequest, currency).floor,
               bidfloorcur |-> getHighestFloor(bidRequest, currency).currency,
               pbsize |-> units2[code]],
      adUnitsCalled |-> units2,
      adSizesCalled |-> sizes2]

\* one call of converter.imp: the imp, and the label maps after it
ConverterImp(bidRequest, units, sizesCalled, currency) ==
  LET code == bidRequest.adUnitCode
      impSize == ImpSize(bidRequest.sizes)
      isNew == code \notin DOMAIN units
      count == IF impSize \in DOMAIN sizesCalled THEN sizesCalled[impSize] + 1 ELSE 1
      sizes2 == IF isNew
                  THEN [z \in DOMAIN sizesCalled \cup {impSize} |->
                          IF z = impSize THEN count ELSE sizesCalled[z]]
                  ELSE sizesCalled
      units2 == IF isNew
                  THEN [u \in DOMAIN units \cup {code} |->
                          IF u = code THEN impSize \o "_" \o ToString(count)
                          ELSE units[u]]
                  ELSE units
  IN [imp |-> [id |-> ImpId(bidRequest), tagid |-> code,
               bidfloor |-> getHighestFloor(bidRequest, currency).floor,
               bidfloorcur |-> getHighestFloor(bidRequest, currency).currency,
               pbsize |-> units2[code]],
      adUnitsCalled |-> units2,
      adSizesCalled |-> sizes2]

\* converter.toORTB calls converter.imp once per bid request, in order; a
\* call that throws (at line 134, before it touches the label maps) ends it
RECURSIVE BuildImps(_, _, _, _)
BuildImps(bidRequests, i, acc, currency) ==
  IF i > Len(bidRequests) THEN acc
  ELSE IF ImpIdThrows(bidRequests[i]) THEN [acc EXCEPT !.threw = TRUE]
  ELSE LET r == ConverterImp(bidRequests[i], acc.adUnitsCalled, acc.adSizesCalled, currency)
       IN BuildImps(bidRequests, i + 1,
            [imps |-> Append(acc.imps, r.imp),
             adUnitsCalled |-> r.adUnitsCalled,
             adSizesCalled |-> r.adSizesCalled,
             threw |-> FALSE],
            currency)

\* setOnAny(collection, 'params.siteId'): the first truthy value
RECURSIVE setOnAnySiteId(_, _)
setOnAnySiteId(bidRequests, i) ==
  IF i > Len(bidRequests) THEN Undefined
  ELSE LET v == RequestParams(bidRequests[i]).siteId
       IN IF Truthy(v) THEN v ELSE setOnAnySiteId(bidRequests, i + 1)

\* mutant of ApplyClientHints: the id is generated anew in every call
ApplyClientHintsAlways(pv, pathname, random) ==
  [pv EXCEPT !.path = pathname, !.id = random]

\* the page-view part of applyClientHints
ApplyClientHints(pv, pathname, random) ==
  IF ~Truthy(pv.id) \/ pathname # pv.path
    THEN [pv EXCEPT !.path = pathname, !.id = random]
    ELSE pv

\* JSON.parse(JSON.stringify(site)): a field that is undefined is dropped by
\* stringify and reads as undefined after parse; an empty string survives
JSONRoundTripSite(site) ==
  [id |-> IF site.id = Undefined THEN Undefined ELSE site.id,
   slot |-> IF site.slot = Undefined THEN Undefined ELSE site.slot]

\* converter.toORTB followed by the body of spec.buildRequests; pv is the
\* page view after applyClientHints. When an imp throws, ret is not returned.
buildRequests(validBidRequests, bidderRequest, pv, units, sizesCalled, currency) ==
  LET built == BuildImps(validBidRequests, 1,
                 [imps |-> <<>>, adUnitsCalled |-> units, adSizesCalled |-> sizesCalled,
                  threw |-> FALSE],
                 currency)
      siteId == OrElse(setOnAnySiteId(validBidRequests, 1), bidderRequest.siteId)
      payload == [imp |-> built.imps,
                  site |-> [id |-> siteId, slot |-> Undefined],
                  tmax |-> TMAX,
                  pvid |-> pv.id]
  IN [threw |-> built.threw,
      ret |-> [method |-> "POST", data |-> payload, bidderRequest |-> bidderRequest],
      adUnitsCalled |-> built.adUnitsCalled,
      adSizesCalled |-> built.adSizesCalled]

\* mutant of BuildRequests: an absent or empty list is converted like any
\* other
BuildRequestsUnguarded ==
  /\ Idle
  /\ \E vbr \in {None} \cup {Some(l) : l \in BidRequestLists(scenario)},
        fpd \in FpdSiteIds(scenario),
        pathname \in Pathnames(scenario),
        random \in PageViewIds(scenario),
        adServerCurrency \in Currencies(scenario) :
       LET args == [validBidRequests |-> vbr, pathname |-> pathname, random |-> random,
                    adServerCurrency |-> adServerCurrency]
           list == IF IsSome(vbr) THEN vbr[1] ELSE <<>>
           bidderRequest == [bids |-> list, auctionId |-> "a1", siteId |-> fpd]
           pv == ApplyClientHints(pageView, pathname, random)
           b == buildRequests(list, bidderRequest, pv, adUnitsCalled,
                              adSizesCalled, getCurrency(adServerCurrency))
       IN /\ adUnitsCalled' = b.adUnitsCalled
          /\ adSizesCalled' = b.adSizesCalled
          /\ pageView' = IF b.threw THEN pageView ELSE pv
          /\ request' = IF b.threw THEN request ELSE Some(b.ret)
          /\ call' = [op |-> "buildRequests", args |-> args,
                      ret |-> IF b.threw THEN None ELSE Some(b.ret),
                      threw |-> b.threw]
  /\ UNCHANGED <<scenario, oneCodeDetection>>

\* spec.buildRequests(validBidRequests, bidderRequest); vbr is None when the
\* argument is absent. ret is None for the return value false, and when the
\* call threw. converter.request, and with it applyClientHints, runs after
\* all imps are built.
BuildRequests ==
  /\ Idle
  /\ \E vbr \in {None} \cup {Some(l) : l \in BidRequestLists(scenario)},
        fpd \in FpdSiteIds(scenario),
        pathname \in Pathnames(scenario),
        random \in PageViewIds(scenario),
        adServerCurrency \in Currencies(scenario) :
       LET args == [validBidRequests |-> vbr, pathname |-> pathname, random |-> random,
                    adServerCurrency |-> adServerCurrency]
       IN IF ~IsSome(vbr) \/ Len(vbr[1]) < 1
            THEN /\ call' = [op |-> "buildRequests", args |-> args, ret |-> None,
                             threw |-> FALSE]
                 /\ UNCHANGED <<adUnitsCalled, adSizesCalled, pageView, request>>
            ELSE LET bidderRequest == [bids |-> vbr[1], auctionId |-> "a1", siteId |-> fpd]
                     pv == ApplyClientHints(pageView, pathname, random)
                     b == buildRequests(vbr[1], bidderRequest, pv, adUnitsCalled,
                                        adSizesCalled, getCurrency(adServerCurrency))
                 IN /\ adUnitsCalled' = b.adUnitsCalled
                    /\ adSizesCalled' = b.adSizesCalled
                    /\ pageView' = IF b.threw THEN pageView ELSE pv
                    /\ request' = IF b.threw THEN request ELSE Some(b.ret)
                    /\ call' = [op |-> "buildRequests", args |-> args,
                                ret |-> IF b.threw THEN None ELSE Some(b.ret),
                                threw |-> b.threw]
  /\ UNCHANGED <<scenario, oneCodeDetection>>

\* ------------------------------------------------------------- native ads
\* an asset of a native payload; img, title and data collapsed to the fields
\* parseNative reads
Asset(id, imgUrl, imgType, titleText, dataType, dataValue) ==
  [id |-> id, imgUrl |-> imgUrl, imgType |-> imgType, titleText |-> titleText,
   dataType |-> dataType, dataValue |-> dataValue]

NATIVE_TITLE == 0
NATIVE_CTA == 1
NATIVE_ICON == 2
NATIVE_IMAGE == 3
NATIVE_BODY == 4
NATIVE_SPONSORED_BY == 5
NATIVE_EXTRA_IMAGE_ABOVE == 10

\* mutant of getNativeAssetType: every id is looked up in the map
getNativeAssetTypeMapOnly(id) ==
  CASE id = NATIVE_TITLE -> "title"
    [] id = NATIVE_CTA -> "cta"
    [] id = NATIVE_ICON -> "icon"
    [] id = NATIVE_IMAGE -> "image"
    [] id = NATIVE_BODY -> "body"
    [] id = NATIVE_SPONSORED_BY -> "sponsoredBy"
    [] OTHER -> Undefined

getNativeAssetType(id) ==
  IF id > NATIVE_EXTRA_IMAGE_ABOVE THEN "image"
  ELSE CASE id = NATIVE_TITLE -> "title"
         [] id = NATIVE_CTA -> "cta"
         [] id = NATIVE_ICON -> "icon"
         [] id = NATIVE_IMAGE -> "image"
         [] id = NATIVE_BODY -> "body"
         [] id = NATIVE_SPONSORED_BY -> "sponsoredBy"
         [] OTHER -> Undefined

IMG_TYPE_MAIN == 3
IMG_TYPE_ICON == 1
DATA_TYPE_SPONSORED == 1
DATA_TYPE_DESC == 2
DATA_TYPE_CTA == 12

EmptyNative ==
  [title |-> Undefined, image |-> Undefined, icon |-> Undefined,
   sponsoredBy |-> Undefined, body |-> Undefined, cta |-> Undefined]

\* the body of nativeData.assets.forEach, for one asset
ParseAsset(result, asset) ==
  LET detectedType == getNativeAssetType(asset.id)
      r1 == IF Truthy(asset.titleText)
              THEN [result EXCEPT !.title = asset.titleText] ELSE result
      r2 == IF Truthy(asset.imgUrl)
              THEN IF asset.imgType = Some(IMG_TYPE_MAIN) \/ detectedType = "image"
                     THEN [r1 EXCEPT !.image = asset.imgUrl]
                   ELSE IF asset.imgType = Some(IMG_TYPE_ICON) \/ detectedType = "icon"
                     THEN [r1 EXCEPT !.icon = asset.imgUrl]
                   ELSE r1
              ELSE r1
      r3 == IF Truthy(asset.dataValue)
              THEN IF asset.dataType = Some(DATA_TYPE_SPONSORED) \/ detectedType = "sponsoredBy"
                     THEN [r2 EXCEPT !.sponsoredBy = asset.dataValue]
                   ELSE IF asset.dataType = Some(DATA_TYPE_DESC) \/ detectedType = "body"
                     THEN [r2 EXCEPT !.body = asset.dataValue]
                   ELSE IF asset.dataType = Some(DATA_TYPE_CTA) \/ detectedType = "cta"
                     THEN [r2 EXCEPT !.cta = asset.dataValue]
                   ELSE r2
              ELSE r2
  IN r3

RECURSIVE ParseAssets(_, _, _)
ParseAssets(assets, i, result) ==
  IF i > Len(assets) THEN result
  ELSE ParseAssets(assets, i + 1, ParseAsset(result, assets[i]))

\* mutant of parseNative: a payload without an asset list counts as one with
\* no assets
parseNativeLenient(nativeData) ==
  IF ~IsSome(nativeData) \/ ~IsSome(nativeData[1].assets)
    THEN [threw |-> FALSE, native |-> EmptyNative]
    ELSE [threw |-> FALSE, native |-> ParseAssets(nativeData[1].assets[1], 1, EmptyNative)]

\* parseNative(nativeData, adUnitCode): nativeData is None when undefined, and
\* nativeData.assets is None when the payload has no asset list; both throw
parseNative(nativeData) ==
  IF ~IsSome(nativeData) \/ ~IsSome(nativeData[1].assets)
    THEN [threw |-> TRUE, native |-> EmptyNative]
    ELSE [threw |-> FALSE, native |-> ParseAssets(nativeData[1].assets[1], 1, EmptyNative)]

\* the markup strings of the model, and what JSON.parse makes of them
ADM_BANNER == "<banner html>"
ADM_VAST == "<?xml version=\"1.0\"?><VAST/>"
ADM_NATIVE == "{\"native\":{\"assets\":[{\"id\":0,\"title\":{\"text\":\"T\"}}]}}"
ADM_NATIVE_NO_ASSETS == "{\"native\":{\"link\":{}}}"
ADM_NATIVE_NO_ROOT == "{\"native\"}"
ADM_NATIVE_QUOTES == "{'native':{'assets':[]}}"
ADM_NATIVE_NULL == "{\"native\":null}"
ADM_NATIVE_SPACED == "{ \"native\": {\"assets\": [{\"id\": 0, \"title\": {\"text\": \"T\"}}]}}"

\* JSON.parse(adm): [threw, native], native being the .native of the parsed
\* object (None when it has none)
JSONParse(adm) ==
  CASE adm = ADM_NATIVE ->
         [threw |-> FALSE,
          native |-> Some([assets |-> Some(<<Asset(0, Undefined, None, "T", None, Undefined)>>)])]
    [] adm = ADM_NATIVE_SPACED ->
         [threw |-> FALSE,
          native |-> Some([assets |-> Some(<<Asset(0, Undefined, None, "T", None, Undefined)>>)])]
    [] adm = ADM_NATIVE_NO_ASSETS ->
         [threw |-> FALSE, native |-> Some([assets |-> None])]
    [] adm = ADM_NATIVE_NULL ->
         [threw |-> FALSE, native |-> None]
    [] OTHER -> [threw |-> TRUE, native |-> None]

isVideoAd(bid) == Truthy(bid.adm) /\ StartsWith(bid.adm, "<?xml")

isNativeAd(bid) ==
  \/ IsSome(bid.admNative)
  \/ /\ Truthy(bid.adm)
     /\ \E q1 \in {"'", "\""}, q2 \in {"'", "\""} :
          StartsWith(bid.adm, "{" \o q1 \o "native" \o q2)

\* ------------------------------------------------------ interpretResponse
EmptyExt == [siteid |-> Undefined, slotid |-> Undefined, cache |-> Undefined]

\* unpackParams(bidParams): the object, or the first element of the array;
\* {} when that is missing
unpackParams(bidParams) ==
  IF Len(bidParams.items) >= 1 THEN bidParams.items[1] ELSE EmptyParams

\* the id interpretResponse expects in impid for bid request b
CurrentBidId(b) ==
  LET params == unpackParams(b.params)
  IN IF Truthy(params.id) /\ Truthy(params.siteId)
       THEN params.id
       ELSE "bidid-" \o b.bidId

\* bidderRequest.bids.filter(...)[0]: None, or the first bid request whose
\* expected id is impid
MatchBidRequest(bids, impid) ==
  LET hits == {k \in 1..Len(bids) : CurrentBidId(bids[k]) = impid}
  IN IF hits = {} THEN None
     ELSE Some(bids[CHOOSE k \in hits : \A j \in hits : k <= j])

\* mutant of PricePositive: bid.cpm >= 0
PriceNonNegative(cpm) == IsSome(cpm) /\ cpm[1] >= 0

\* bid.cpm > 0 (false for a missing price)
PricePositive(cpm) == IsSome(cpm) /\ cpm[1] > 0

\* mutant of SiteResolved: the 'bidid' test is left out
SiteNonEmpty(siteId) == Truthy(siteId)

\* a site id the exchange has resolved
SiteResolved(siteId) == Truthy(siteId) /\ ~strIncludes(siteId, "bidid")

\* the bid object interpretResponse assembles for a matched server bid
MakeBid(serverBid, bidRequest, crid, seat, cur) ==
  LET base == [requestId |-> bidRequest.bidId,
               creativeId |-> crid,
               cpm |-> serverBid.price,
               currency |-> cur,
               ttl |-> IF IsSome(serverBid.exp) THEN serverBid.exp[1] ELSE DEFAULT_EXP,
               width |-> serverBid.w,
               height |-> serverBid.h,
               bidderCode |-> BIDDER_CODE,
               networkName |-> seat,
               netRevenue |-> TRUE,
               mediaType |-> Undefined,
               ad |-> Undefined,
               vastXml |-> Undefined,
               vastContent |-> Undefined,
               vastUrl |-> Undefined,
               native |-> None]
  IN IF isVideoAd(serverBid)
       THEN [base EXCEPT !.mediaType = "video",
                         !.vastXml = serverBid.adm,
                         !.vastContent = serverBid.adm,
                         !.vastUrl = serverBid.ext.cache]
     ELSE IF isNativeAd(serverBid)
       THEN LET parsed == IF IsSome(serverBid.admNative)
                            THEN [threw |-> FALSE, native |-> serverBid.admNative]
                            ELSE JSONParse(serverBid.adm)
                result == IF parsed.threw
                            THEN [threw |-> TRUE, native |-> EmptyNative]
                            ELSE parseNative(parsed.native)
            IN IF result.threw
                 THEN [base EXCEPT !.mediaType = "native", !.cpm = Some(0)]
                 ELSE [base EXCEPT !.mediaType = "native",
                                   !.native = Some(result.native),
                                   !.width = Some(1),
                                   !.height = Some(1)]
     ELSE [base EXCEPT !.mediaType = "banner", !.ad = serverBid.adm]

\* mutant of ProcessBid: the entry is written only for a bid that is returned
ProcessBidStoreReturned(serverBid, seat, acc, bidderRequest, cur) ==
  LET crid == IF serverBid.crid = Undefined
                THEN "mcad_" \o Str(bidderRequest.auctionId) \o "_" \o Str(acc.site.slot)
                ELSE serverBid.crid
      ext == serverBid.ext
      bidRequest == MatchBidRequest(bidderRequest.bids, serverBid.impid)
      site == [id |-> IF ext.siteid = Undefined THEN acc.site.id ELSE ext.siteid,
               slot |-> IF ext.slotid = Undefined THEN acc.site.slot ELSE ext.slotid]
  IN IF IsSome(bidRequest) /\ SiteResolved(site.id)
       THEN LET bidId == bidRequest[1].bidId
                bid == MakeBid(serverBid, bidRequest[1], crid, seat, cur)
            IN IF PricePositive(bid.cpm)
                 THEN [site |-> site,
                       store |-> [k \in DOMAIN acc.store \cup {bidId} |->
                                    IF k = bidId THEN <<site.id, site.slot>> ELSE acc.store[k]],
                       bids |-> Append(acc.bids, bid),
                       threw |-> acc.threw]
                 ELSE [acc EXCEPT !.site = site]
       ELSE [acc EXCEPT !.site = site]

\* mutant of ProcessBid: an entry of the store is written once and then kept
ProcessBidKeepFirstEntry(serverBid, seat, acc, bidderRequest, cur) ==
  LET ext == serverBid.ext
      bidRequest == MatchBidRequest(bidderRequest.bids, serverBid.impid)
      site == [id |-> IF ext.siteid = Undefined THEN acc.site.id ELSE ext.siteid,
               slot |-> IF ext.slotid = Undefined THEN acc.site.slot ELSE ext.slotid]
  IN IF IsSome(bidRequest) /\ SiteResolved(site.id)
       THEN LET bidId == bidRequest[1].bidId
                bid == MakeBid(serverBid, bidRequest[1], serverBid.crid, seat, cur)
            IN [site |-> site,
                store |-> [k \in DOMAIN acc.store \cup {bidId} |->
                             IF k \in DOMAIN acc.store THEN acc.store[k]
                             ELSE <<site.id, site.slot>>],
                bids |-> IF PricePositive(bid.cpm) THEN Append(acc.bids, bid) ELSE acc.bids,
                threw |-> acc.threw]
       ELSE [acc EXCEPT !.site = site]

\* the body of seatbid.bid.forEach for one server bid;
\* acc = [site, store, bids, threw]
ProcessBid(serverBid, seat, acc, bidderRequest, cur) ==
  LET crid == IF serverBid.crid = Undefined
                THEN "mcad_" \o Str(bidderRequest.auctionId) \o "_" \o Str(acc.site.slot)
                ELSE serverBid.crid
      ext == serverBid.ext
      bidRequest == MatchBidRequest(bidderRequest.bids, serverBid.impid)
      site == [id |-> IF ext.siteid = Undefined THEN acc.site.id ELSE ext.siteid,
               slot |-> IF ext.slotid = Undefined THEN acc.site.slot ELSE ext.slotid]
  IN IF IsSome(bidRequest) /\ SiteResolved(site.id)
       THEN LET bidId == bidRequest[1].bidId
                bid == MakeBid(serverBid, bidRequest[1], crid, seat, cur)
            IN [site |-> site,
                store |-> [k \in DOMAIN acc.store \cup {bidId} |->
                             IF k = bidId THEN <<site.id, site.slot>> ELSE acc.store[k]],
                bids |-> IF PricePositive(bid.cpm) THEN Append(acc.bids, bid) ELSE acc.bids,
                threw |-> acc.threw]
       ELSE [acc EXCEPT !.site = site]

\* mutant of ProcessBids: the first unmatched server bid ends the batch
RECURSIVE ProcessBidsUntilUnmatched(_, _, _, _, _, _)
ProcessBidsUntilUnmatched(bidList, j, seat, acc, bidderRequest, cur) ==
  IF j > Len(bidList) THEN acc
  ELSE IF ~IsSome(MatchBidRequest(bidderRequest.bids, bidList[j].impid)) THEN acc
  ELSE ProcessBidsUntilUnmatched(bidList, j + 1, seat,
         ProcessBid(bidList[j], seat, acc, bidderRequest, cur), bidderRequest, cur)

RECURSIVE ProcessBids(_, _, _, _, _, _)
ProcessBids(bidList, j, seat, acc, bidderRequest, cur) ==
  IF j > Len(bidList) THEN acc
  ELSE ProcessBids(bidList, j + 1, seat,
         ProcessBid(bidList[j], seat, acc, bidderRequest, cur), bidderRequest, cur)

\* response.seatbid.forEach; seatbid.bid.forEach throws when a seat has no
\* bid list, and that ends the loop
RECURSIVE ProcessSeatbids(_, _, _, _, _)
ProcessSeatbids(seatbid, i, acc, bidderRequest, cur) ==
  IF i > Len(seatbid) THEN acc
  ELSE IF ~IsSome(seatbid[i].bid) THEN [acc EXCEPT !.threw = TRUE]
  ELSE ProcessSeatbids(seatbid, i + 1,
         ProcessBids(seatbid[i].bid[1], 1, seatbid[i].seat, acc, bidderRequest, cur),
         bidderRequest, cur)

\* mutant of interpretResponse: the store is rebuilt from the response
interpretResponseFreshStore(serverResponse, req, store) ==
  IF ~IsSome(serverResponse.body)
    THEN [threw |-> TRUE, bids |-> <<>>, store |-> store, snStored |-> FALSE,
          sn |-> Undefined]
    ELSE LET response == serverResponse.body[1]
             acc0 == [site |-> JSONRoundTripSite(req.data.site),
                      store |-> [k \in {} |-> <<Undefined, Undefined>>],
                      bids |-> <<>>,
                      threw |-> FALSE]
             acc == IF IsSome(response.seatbid)
                      THEN ProcessSeatbids(response.seatbid[1], 1, acc0,
                                           req.bidderRequest, response.cur)
                      ELSE acc0
         IN [threw |-> acc.threw, bids |-> IF acc.threw THEN <<>> ELSE acc.bids,
             store |-> acc.store, snStored |-> TRUE,
             sn |-> OrElse(response.sn, "mc_adapter")]

\* spec.interpretResponse(serverResponse, request) on the store `store`:
\* [threw, bids, store, snStored, sn]. The site is read back from the JSON
\* text of request.data. Reading response.sn throws when the body is missing,
\* before anything is stored; a seat without a bid list throws after
\* pageView.sn and the entries of the seats before it are stored. A call that
\* throws returns no bids.
interpretResponse(serverResponse, req, store) ==
  IF ~IsSome(serverResponse.body)
    THEN [threw |-> TRUE, bids |-> <<>>, store |-> store, snStored |-> FALSE,
          sn |-> Undefined]
    ELSE LET response == serverResponse.body[1]
             site0 == JSONRoundTripSite(req.data.site)
             sn == OrElse(response.sn, "mc_adapter")
             acc0 == [site |-> site0, store |-> store, bids |-> <<>>, threw |-> FALSE]
             acc == IF IsSome(response.seatbid)
                      THEN ProcessSeatbids(response.seatbid[1], 1, acc0,
                                           req.bidderRequest, response.cur)
                      ELSE acc0
         IN [threw |-> acc.threw, bids |-> IF acc.threw THEN <<>> ELSE acc.bids,
             store |-> acc.store, snStored |-> TRUE, sn |-> sn]

\* ------------------------------------------------------ server responses
WireBid(impid, price, ext) ==
  [impid |-> impid, price |-> price, ext |-> ext, crid |-> Undefined,
   adm |-> ADM_BANNER, admNative |-> None, exp |-> None,
   w |-> Some(300), h |-> Some(250)]

ResolvedExt == [EmptyExt EXCEPT !.siteid = "9", !.slotid = "1"]
OtherSiteExt == [EmptyExt EXCEPT !.siteid = "7", !.slotid = "2"]
PlaceholderExt == [EmptyExt EXCEPT !.siteid = "bidid-" \o BidId(1)]

CACHE_URL == "https://cache.example/vast"

\* a bid for the first imp with markup adm, structured native payload
\* admNative and creative-cache URL cache
MediaBid(req, adm, admNative, cache) ==
  [WireBid(req.data.imp[1].id, Some(15), [ResolvedExt EXCEPT !.cache = cache])
     EXCEPT !.adm = adm, !.admNative = admNative]

\* a native payload with one asset that has an image and a data value
OneAssetPayload(id, imgType) ==
  Some([assets |-> Some(<<Asset(id, "https://img.example/i.png", imgType,
                                Undefined, None, "text")>>)])

\* the server bids the exchange may send in answer to req
WireBidChoices(s, req) ==
  CASE s = "ids" ->
         \* the exchange echoes the imp ids it was sent
         {WireBid(req.data.imp[k].id, Some(15), EmptyExt) : k \in 1..Len(req.data.imp)}
    [] s = "price" ->
         \* the ids interpretResponse expects, the imp ids sent, and an id
         \* that belongs to no bid request
         {WireBid(i, p, ResolvedExt) :
            i \in {CurrentBidId(req.bidderRequest.bids[k]) :
                     k \in 1..Len(req.bidderRequest.bids)}
                  \cup {req.data.imp[k].id : k \in 1..Len(req.data.imp)}
                  \cup {"404"},
            p \in {None, Some(-1), Some(0), Some(15)}}
    [] s = "site" ->
         {WireBid(CurrentBidId(req.bidderRequest.bids[k]), Some(15), e) :
            k \in 1..Len(req.bidderRequest.bids),
            e \in {EmptyExt, ResolvedExt, PlaceholderExt}}
    [] s = "media" ->
         {MediaBid(req, ADM_BANNER, None, Undefined),
          MediaBid(req, ADM_VAST, None, CACHE_URL),
          MediaBid(req, ADM_VAST, OneAssetPayload(NATIVE_IMAGE, None), Undefined),
          MediaBid(req, ADM_NATIVE, None, Undefined),
          MediaBid(req, ADM_NATIVE_SPACED, None, Undefined),
          MediaBid(req, Undefined, OneAssetPayload(NATIVE_IMAGE, None), Undefined),
          MediaBid(req, Undefined, Some([assets |-> None]), Undefined),
          MediaBid(req, ADM_NATIVE_NO_ASSETS, None, Undefined),
          MediaBid(req, ADM_NATIVE_NULL, None, Undefined),
          MediaBid(req, ADM_NATIVE_QUOTES, None, Undefined)}
    [] s = "malformed" ->
         \* bids for the first imp, without and with ext
         {WireBid(req.data.imp[1].id, Some(15), e) : e \in {EmptyExt, ResolvedExt}}
    [] s = "store" ->
         \* bids for the first two imps with every kind of price and site, a
         \* native bid without assets, and a bid for no bid request
         LET ids == {req.data.imp[k].id : k \in 1..Len(req.data.imp)}
                      \cap {"bidid-" \o BidId(1), "bidid-" \o BidId(2)}
         IN {WireBid(i, p, e) :
               i \in ids, p \in {Some(0), Some(15)},
               e \in {EmptyExt, ResolvedExt, OtherSiteExt, PlaceholderExt}}
            \cup {WireBid(i, None, ResolvedExt) : i \in ids}
            \cup {[WireBid(i, Some(15), OtherSiteExt) EXCEPT !.adm = ADM_NATIVE_NO_ASSETS] :
                    i \in ids}
            \cup {WireBid("404", Some(15), ResolvedExt)}
    [] s = "native" ->
         {MediaBid(req, Undefined, OneAssetPayload(id, t), Undefined) :
            id \in 0..MaxAssetId, t \in {None, Some(IMG_TYPE_ICON), Some(IMG_TYPE_MAIN)}}
    [] OTHER ->
         \* a bid for the first imp
         {WireBid(req.data.imp[1].id, Some(15), ResolvedExt)}

\* the j-th server bid of a response; from the third on the choice is
\* narrower
WireBidChoicesAt(s, req, j) ==
  IF (s = "native" /\ j > 1) \/ (s = "store" /\ j > 2)
    THEN {WireBid(req.data.imp[1].id, Some(15), ResolvedExt)}
  ELSE IF s = "site" /\ j > 2
    THEN {b \in WireBidChoices(s, req) : b.ext \in {EmptyExt, ResolvedExt}}
  ELSE IF s = "price" /\ j > 2
    THEN {b \in WireBidChoices(s, req) : b.price \in {Some(0), Some(15)}}
  ELSE WireBidChoices(s, req)

RECURSIVE WireBidListsOfLen(_, _, _)
WireBidListsOfLen(s, req, m) ==
  IF m = 0 THEN {<<>>}
  ELSE {Append(l, b) : l \in WireBidListsOfLen(s, req, m - 1), b \in WireBidChoicesAt(s, req, m)}

\* how the server bids are spread over seats
Shapes(s) ==
  CASE s = "ids" -> {"oneSeat", "seatPerBid"}
    [] s = "malformed" -> {"oneSeat", "bidListMissing"}
    [] OTHER -> {"oneSeat"}

Seatbid(wireBids, shape) ==
  LET numbered == [k \in 1..Len(wireBids) |->
                     [wireBids[k] EXCEPT !.crid = "cr" \o ToString(k)]]
  IN CASE shape = "oneSeat" ->
            << [seat |-> "seat1", bid |-> Some(numbered)] >>
       [] shape = "bidListMissing" ->
            \* a second seat that has no bid list
            << [seat |-> "seat1", bid |-> Some(numbered)], [seat |-> "seat2", bid |-> None] >>
       [] OTHER ->
            [k \in 1..Len(numbered) |->
               [seat |-> "seat" \o ToString(k), bid |-> Some(<<numbered[k]>>)]]

SiteNames(s) == {Undefined}

ServerResponses(s, req) ==
  {[body |-> None]}
  \cup {[body |-> Some([sn |-> n, cur |-> DEFAULT_CURRENCY, seatbid |-> None])] :
          n \in SiteNames(s)}
  \cup {[body |-> Some([sn |-> n, cur |-> DEFAULT_CURRENCY,
                        seatbid |-> Some(Seatbid(w, shape))])] :
          n \in SiteNames(s),
          shape \in Shapes(s),
          w \in UNION {WireBidListsOfLen(s, req, m) : m \in 0..MaxSeatBids}}

\* spec.interpretResponse(serverResponse, request), called once for the
\* request that was built
InterpretResponse ==
  /\ Idle
  /\ IsSome(request)
  /\ \E serverResponse \in ServerResponses(scenario, request[1]) :
       LET r == interpretResponse(serverResponse, request[1], oneCodeDetection)
       IN /\ oneCodeDetection' = r.store
          /\ pageView' = IF r.snStored THEN [pageView EXCEPT !.sn = r.sn] ELSE pageView
          /\ call' = [op |-> "interpretResponse",
                      args |-> [serverResponse |-> serverResponse, request |-> request[1]],
                      ret |-> [threw |-> r.threw, bids |-> r.bids]]
  /\ request' = None
  /\ UNCHANGED <<scenario, adUnitsCalled, adSizesCalled>>

\* ----------------------------------------------------------- notifications
EmptyPayload ==
  [requestId |-> Undefined, timeout |-> None, pvid |-> Undefined,
   siteId |-> <<>>, slotId |-> <<>>, tagid |-> <<>>,
   cpm |-> None, creativeId |-> Undefined, networkName |-> Undefined,
   event |-> Undefined]

\* mutant of NotifyBid: the stored entry is used only when the bid has no
\* site id of its own
NotifyBidOwnParamsFirst(result, bid, store, pv) ==
  LET unpacked == unpackParams(bid.params)
      stored == bid.requestId \in DOMAIN store /\ ~Truthy(unpacked.siteId)
      params == IF stored
                  THEN [id |-> store[bid.requestId][2], siteId |-> store[bid.requestId][1]]
                  ELSE unpacked
      r1 == [result EXCEPT !.requestId = OrElse(bid.auctionId, result.requestId),
                           !.timeout = IF IsSome(bid.timeout) /\ bid.timeout[1] # 0
                                         THEN bid.timeout ELSE result.timeout,
                           !.pvid = pv.id,
                           !.tagid = Append(result.tagid, bid.adUnitCode)]
      r2 == IF Truthy(params.siteId)
              THEN [r1 EXCEPT !.siteId = Append(r1.siteId, params.siteId)] ELSE r1
      r3 == IF Truthy(params.id)
              THEN [r2 EXCEPT !.slotId = Append(r2.slotId, params.id)] ELSE r2
  IN IF IsSome(bid.cpm) /\ bid.cpm[1] # 0
       THEN [r3 EXCEPT !.cpm = bid.cpm,
                       !.creativeId = bid.creativeId,
                       !.networkName = bid.networkName]
       ELSE r3

\* the body of bids.forEach in getNotificationPayload, for one bid
NotifyBid(result, bid, store, pv) ==
  LET unpacked == unpackParams(bid.params)
      stored == bid.requestId \in DOMAIN store
      params == IF stored
                  THEN [id |-> store[bid.requestId][2], siteId |-> store[bid.requestId][1]]
                  ELSE unpacked
      r1 == [result EXCEPT !.requestId = OrElse(bid.auctionId, result.requestId),
                           !.timeout = IF IsSome(bid.timeout) /\ bid.timeout[1] # 0
                                         THEN bid.timeout ELSE result.timeout,
                           !.pvid = pv.id,
                           !.tagid = Append(result.tagid, bid.adUnitCode)]
      r2 == IF Truthy(params.siteId)
              THEN [r1 EXCEPT !.siteId = Append(r1.siteId, params.siteId)] ELSE r1
      r3 == IF Truthy(params.id)
              THEN [r2 EXCEPT !.slotId = Append(r2.slotId, params.id)] ELSE r2
  IN IF IsSome(bid.cpm) /\ bid.cpm[1] # 0
       THEN [r3 EXCEPT !.cpm = bid.cpm,
                       !.creativeId = bid.creativeId,
                       !.networkName = bid.networkName]
       ELSE r3

RECURSIVE NotifyBids(_, _, _, _, _)
NotifyBids(bids, i, result, store, pv) ==
  IF i > Len(bids) THEN result
  ELSE NotifyBids(bids, i + 1, NotifyBid(result, bids[i], store, pv), store, pv)

\* getNotificationPayload(bidData): bidData is None when undefined, else
\* [isArray, items] like params; the result is None when undefined
getNotificationPayload(bidData, store, pv) ==
  IF ~IsSome(bidData) \/ Len(bidData[1].items) = 0
    THEN None
    ELSE Some(NotifyBids(bidData[1].items, 1, EmptyPayload, store, pv))

\* the bids the host reports as won or timed out
NotifiedBid(k, params, cpm) ==
  [requestId |-> BidId(k), adUnitCode |-> AdUnitCode(k), auctionId |-> "a1",
   params |-> params, cpm |-> cpm, creativeId |-> "cr" \o ToString(k),
   networkName |-> "seat1", timeout |-> IF IsSome(cpm) THEN None ELSE Some(TMAX)]

NotifiedParams(k) ==
  {EmptyParams, [id |-> padStart(ToString(k), PAD_WIDTH, "0"), siteId |-> "7"]}

WonBids(s) ==
  UNION {{NotifiedBid(k, ParamsObject(p), Some(15)) : p \in NotifiedParams(k)} :
           k \in 1..MaxBids}

TimedOutBids(s) ==
  UNION {{NotifiedBid(k, ParamsArray(<<p>>), None) : p \in NotifiedParams(k)} :
           k \in 1..MaxBids}

\* timeoutData: bid requests of one auction, each at most once, in order
TimeoutLists(s) ==
  {l \in UNION {[1..n -> TimedOutBids(s)] : n \in 0..MaxBids} :
     \A i, j \in 1..Len(l) : i < j =>
       \E a, b \in 1..MaxBids : /\ a < b
                                /\ l[i].requestId = BidId(a)
                                /\ l[j].requestId = BidId(b)}

\* spec.onBidWon(bid): the payload is posted to NOTIFY_URL and returned
OnBidWon ==
  /\ Idle
  /\ \E bid \in {None} \cup {Some([isArray |-> FALSE, items |-> <<b>>]) : b \in WonBids(scenario)} :
       LET payload == getNotificationPayload(bid, oneCodeDetection, pageView)
       IN call' = [op |-> "onBidWon",
                   args |-> [bid |-> bid],
                   ret |-> IF IsSome(payload)
                             THEN Some([payload[1] EXCEPT !.event = "bidWon"])
                             ELSE None]
  /\ UNCHANGED <<scenario, oneCodeDetection, adUnitsCalled, adSizesCalled, pageView, request>>

\* spec.onTimeout(timeoutData)
OnTimeout ==
  /\ Idle
  /\ \E timeoutData \in
         {None} \cup {Some([isArray |-> TRUE, items |-> l]) : l \in TimeoutLists(scenario)} :
       LET payload == getNotificationPayload(timeoutData, oneCodeDetection, pageView)
       IN call' = [op |-> "onTimeout",
                   args |-> [timeoutData |-> timeoutData],
                   ret |-> IF IsSome(payload)
                             THEN Some([payload[1] EXCEPT !.event = "timeout"])
                             ELSE None]
  /\ UNCHANGED <<scenario, oneCodeDetection, adUnitsCalled, adSizesCalled, pageView, request>>

\* spec.getUserSyncs(syncOptions): consentApiVersion is never assigned, so
\* `consentApiVersion != 1` holds
getUserSyncs(iframeEnabled, pv) ==
  IF iframeEnabled
    THEN << [type |-> "iframe",
             url |-> SYNC_URL \o "?tcf=" \o Str(Undefined) \o "&pvid=" \o Str(pv.id)
                     \o "&sn=" \o Str(pv.sn)] >>
    ELSE <<>>

GetUserSyncs ==
  /\ Idle
  /\ \E iframeEnabled \in BOOLEAN :
       call' = [op |-> "getUserSyncs",
                args |-> [iframeEnabled |-> iframeEnabled],
                ret |-> getUserSyncs(iframeEnabled, pageView)]
  /\ UNCHANGED <<scenario, oneCodeDetection, adUnitsCalled, adSizesCalled, pageView, request>>

\* the host has taken the hook's return value; the next hook can be called
Return ==
  /\ ~Idle
  /\ call' = NoCall
  /\ UNCHANGED <<scenario, oneCodeDetection, adUnitsCalled, adSizesCalled, pageView, request>>

\* ------------------------------------------------- the adf adapter (adf)
\* The second adapter of the file keeps no state of its own; the request the
\* host holds for it is kept in `request`.
ADF_DEFAULT_PT == "net"

\* a bid request of the adf adapter: params.mid and params.pt
AdfBidRequest(k, mid, pt) ==
  [bidId |-> BidId(k), mid |-> mid, pt |-> pt, netRevenue |-> Undefined]

AdfBidRequestChoices(k) ==
  IF k = 1
    THEN {AdfBidRequest(k, "m1", pt) : pt \in {Undefined, "gross"}}
    ELSE {AdfBidRequest(k, "m" \o ToString(k), Undefined)}

RECURSIVE AdfBidRequestListsOfLen(_)
AdfBidRequestListsOfLen(n) ==
  IF n = 0 THEN {<<>>}
  ELSE {Append(l, b) : l \in AdfBidRequestListsOfLen(n - 1), b \in AdfBidRequestChoices(n)}

AdfBidRequestLists == UNION {AdfBidRequestListsOfLen(n) : n \in 0..MaxBids}

\* setOnAny(validBidRequests, 'params.pt'): the first truthy value from
\* position i on
RECURSIVE setOnAnyPt(_, _)
setOnAnyPt(bidRequests, i) ==
  IF i > Len(bidRequests) THEN Undefined
  ELSE IF Truthy(bidRequests[i].pt) THEN bidRequests[i].pt
  ELSE setOnAnyPt(bidRequests, i + 1)

\* mutant of adfImp: impressions are numbered from 0
adfImpFromZero(bid, id) == [id |-> id, tagid |-> bid.mid]

\* the imp built by validBidRequests.map((bid, id) => ...); id counts from 0
adfImp(bid, id) == [id |-> id + 1, tagid |-> bid.mid]

\* adf spec.buildRequests(validBidRequests, bidderRequest): the request
\* carries the imps and the bid requests, each marked with the price type
adfBuildRequests(validBidRequests) ==
  LET pt == OrElse(setOnAnyPt(validBidRequests, 1), ADF_DEFAULT_PT)
  IN [data |-> [imp |-> [k \in 1..Len(validBidRequests) |->
                           adfImp(validBidRequests[k], k - 1)],
                pt |-> pt],
      bids |-> [k \in 1..Len(validBidRequests) |->
                  [validBidRequests[k] EXCEPT !.netRevenue = pt]]]

AdfBuildRequests ==
  /\ Idle
  /\ \E validBidRequests \in AdfBidRequestLists :
       LET r == adfBuildRequests(validBidRequests)
       IN /\ request' = Some(r)
          /\ call' = [op |-> "adf.buildRequests",
                      args |-> [validBidRequests |-> validBidRequests],
                      ret |-> r]
  /\ UNCHANGED <<scenario, oneCodeDetection, adUnitsCalled, adSizesCalled, pageView>>

\* the property name JavaScript makes of the index bid.impid - 1; an impid
\* that is missing or no number gives NaN
AdfIndexKey(impid) == IF IsSome(impid) THEN ToString(impid[1] - 1) ELSE "NaN"

\* mutant of AdfReduce: a slot that is taken is kept
RECURSIVE AdfReduceFirstWins(_, _, _)
AdfReduceFirstWins(serverBids, i, result) ==
  IF i > Len(serverBids) THEN result
  ELSE LET key == AdfIndexKey(serverBids[i].impid)
       IN AdfReduceFirstWins(serverBids, i + 1,
            [k \in DOMAIN result \cup {key} |->
               IF k \in DOMAIN result THEN result[k] ELSE serverBids[i]])

\* flatten(...).reduce((result, bid) => { result[bid.impid - 1] = bid; ... }, []):
\* result maps property names to server bids
RECURSIVE AdfReduce(_, _, _)
AdfReduce(serverBids, i, result) ==
  IF i > Len(serverBids) THEN result
  ELSE LET key == AdfIndexKey(serverBids[i].impid)
       IN AdfReduce(serverBids, i + 1,
            [k \in DOMAIN result \cup {key} |->
               IF k = key THEN serverBids[i] ELSE result[k]])

\* flatten(arr): the lists of arr, from position i on, joined
RECURSIVE flatten(_, _)
flatten(arr, i) ==
  IF i > Len(arr) THEN <<>> ELSE arr[i] \o flatten(arr, i + 1)

\* the result made for bid request bid from server bid bidResponse
AdfResult(bid, bidResponse, cur) ==
  [requestId |-> bid.bidId,
   cpm |-> bidResponse.price,
   creativeId |-> bidResponse.crid,
   ttl |-> ADF_TTL,
   netRevenue |-> bid.netRevenue = "net",
   currency |-> cur]

\* bids.map((bid, id) => ...).filter(Boolean), from index id on
RECURSIVE AdfMapBids(_, _, _, _)
AdfMapBids(bids, id, bidResponses, cur) ==
  IF id >= Len(bids) THEN <<>>
  ELSE (IF ToString(id) \in DOMAIN bidResponses
          THEN <<AdfResult(bids[id + 1], bidResponses[ToString(id)], cur)>>
          ELSE <<>>)
       \o AdfMapBids(bids, id + 1, bidResponses, cur)

\* adf spec.interpretResponse(serverResponse, {bids}): [threw, results].
\* Without a body it returns undefined (results = None). seatbid.map throws
\* when the body has no seatbid, and reading bid.impid throws when a seat has
\* no bid list.
adfInterpretResponse(serverResponse, req) ==
  IF ~IsSome(serverResponse.body)
    THEN [threw |-> FALSE, results |-> None]
    ELSE LET body == serverResponse.body[1]
         IN IF ~IsSome(body.seatbid) \/
               \E i \in 1..Len(body.seatbid[1]) : ~IsSome(body.seatbid[1][i].bid)
              THEN [threw |-> TRUE, results |-> None]
              ELSE LET flat == flatten([i \in 1..Len(body.seatbid[1]) |->
                                          body.seatbid[1][i].bid[1]], 1)
                       bidResponses == AdfReduce(flat, 1, [k \in {} |-> <<>>])
                   IN [threw |-> FALSE,
                       results |-> Some(AdfMapBids(req.bids, 0, bidResponses, body.cur))]

\* a server bid of the adf exchange; impid is None when missing or no number
AdfWireBid(impid, price) == [impid |-> impid, price |-> price, crid |-> Undefined]

AdfWireBidChoices(req) ==
  {AdfWireBid(i, Some(15)) : i \in {None} \cup {Some(k) : k \in 0..(Len(req.bids) + 1)}}
  \cup {AdfWireBid(Some(1), Some(0))}

RECURSIVE AdfWireBidListsOfLen(_, _)
AdfWireBidListsOfLen(req, m) ==
  IF m = 0 THEN {<<>>}
  ELSE {Append(l, b) : l \in AdfWireBidListsOfLen(req, m - 1), b \in AdfWireBidChoices(req)}

AdfServerResponses(req) ==
  {[body |-> None]}
  \cup {[body |-> Some([cur |-> DEFAULT_CURRENCY, seatbid |-> None])]}
  \cup {[body |-> Some([cur |-> DEFAULT_CURRENCY, seatbid |-> Some(Seatbid(w, shape))])] :
          shape \in {"oneSeat", "seatPerBid", "bidListMissing"},
          w \in UNION {AdfWireBidListsOfLen(req, m) : m \in 0..MaxSeatBids}}

AdfInterpretResponse ==
  /\ Idle
  /\ IsSome(request)
  /\ \E serverResponse \in AdfServerResponses(request[1]) :
       call' = [op |-> "adf.interpretResponse",
                args |-> [serverResponse |-> serverResponse, request |-> request[1]],
                ret |-> adfInterpretResponse(serverResponse, request[1])]
  /\ request' = None
  /\ UNCHANGED <<scenario, oneCodeDetection, adUnitsCalled, adSizesCalled, pageView>>

\* the hooks of the adf adapter
NextAdf ==
  \/ AdfBuildRequests
  \/ AdfInterpretResponse
  \/ Return

\* ------------------------------------------------------------ specification
InitIn(s) ==
  /\ scenario = s
  /\ oneCodeDetection = [k \in {} |-> <<Undefined, Undefined>>]
  /\ adUnitsCalled = [k \in {} |-> ""]
  /\ adSizesCalled = [k \in {} |-> 0]
  /\ pageView = [id |-> Undefined, path |-> Undefined, sn |-> Undefined]
  /\ request = None
  /\ call = NoCall

Next ==
  \/ BuildRequests
  \/ InterpretResponse
  \/ OnBidWon
  \/ OnTimeout
  \/ GetUserSyncs
  \/ Return

\* explicit and missing params.id / params.siteId; the exchange echoes imp ids
Init == InitIn("ids")
Spec == Init /\ [][Next]_vars

\* parameterless bid requests; matched and unmatched impids, all prices
InitPrice == InitIn("price")
SpecPrice == InitPrice /\ [][Next]_vars

\* matched server bids with and without ext.siteid / ext.slotid
InitSite == InitIn("site")
SpecSite == InitSite /\ [][Next]_vars

\* ad units built again and again, with different size lists
InitLabels == InitIn("labels")
SpecLabels == InitLabels /\ [][Next]_vars

\* bid requests with and without a floor function, and a configured currency
InitFloors == InitIn("floors")
SpecFloors == InitFloors /\ [][Next]_vars

\* banner, video and native markup, well-formed and malformed
InitMedia == InitIn("media")
SpecMedia == InitMedia /\ [][Next]_vars

\* structured native payloads with one asset of any id and image type
InitNative == InitIn("native")
SpecNative == InitNative /\ [][Next]_vars

\* a number as params.id, seats without a bid list, bids without ext
InitMalformed == InitIn("malformed")
SpecMalformed == InitMalformed /\ [][Next]_vars

\* builds on two page paths; Math.random() has two outcomes
InitPageView == InitIn("pageview")
SpecPageView == InitPageView /\ [][Next]_vars

\* matched bids of every price with resolved, unresolved and placeholder
\* sites, among them a malformed native bid, and unmatched bids
InitStore == InitIn("store")
SpecStore == InitStore /\ [][Next]_vars

\* the adf adapter: bid requests answered by position
InitAdf == InitIn("adf")
SpecAdf == InitAdf /\ [][NextAdf]_vars

\* ------------------------------------------------------------------ claims
\* the last hook call, when it was buildRequests and a request was returned
Built == call.op = "buildRequests" /\ IsSome(call.ret)
BuiltBidRequests == call.args.validBidRequests[1]
BuiltImps == call.ret[1].data.imp

Interpreted == call.op = "interpretResponse"
AnsweredBidRequests == call.args.request.bidderRequest.bids
AnsweredImps == call.args.request.data.imp
Results == call.ret.bids

RECURSIVE FlattenSeatbid(_, _)
FlattenSeatbid(seatbid, i) ==
  IF i > Len(seatbid) THEN <<>>
  ELSE (IF seatbid[i].bid = None THEN <<>> ELSE seatbid[i].bid[1])
       \o FlattenSeatbid(seatbid, i + 1)

\* the server bids of the answered response, in the order of seatbid[].bid[]
ServerBids ==
  LET body == call.args.serverResponse.body
  IN IF IsSome(body) /\ IsSome(body[1].seatbid)
       THEN FlattenSeatbid(body[1].seatbid[1], 1)
       ELSE <<>>

HasExplicitParams(b) ==
  LET p == b.params.items[1]
  IN p.id \notin {Undefined, ""} /\ p.siteId \notin {Undefined, ""}

\* p is id left-padded with '0' to at least 3 characters
IsZeroPadded(p, id) ==
  /\ Len(p) = IF Len(id) >= 3 THEN Len(id) ELSE 3
  /\ SubSeq(p, Len(p) - Len(id) + 1, Len(p)) = id
  /\ \A i \in 1..(Len(p) - Len(id)) : SubSeq(p, i, i) = "0"

\* C1: the impression id interpretResponse recomputes for a bid request when
\* it matches impids is the imp.id the request builder assigned to it.
C1_IdRoundTrip ==
  Interpreted =>
    \A k \in 1..Len(AnsweredBidRequests) :
      CurrentBidId(AnsweredBidRequests[k]) = AnsweredImps[k].id

\* C2: one bid request with params {id: "5", siteId: "7"} and a response with
\* one bid of impid "005", a positive price and banner markup give exactly one
\* result, with cpm = price, mediaType "banner" and ad = adm.
C2_EndToEnd ==
  ( /\ Interpreted
    /\ Len(AnsweredBidRequests) = 1
    /\ AnsweredBidRequests[1].params = ExplicitParams("5", "7")
    /\ Len(ServerBids) = 1
    /\ ServerBids[1].impid = "005"
    /\ PricePositive(ServerBids[1].price)
    /\ ServerBids[1].adm = ADM_BANNER )
  => ( /\ ~call.ret.threw
       /\ Len(Results) = 1
       /\ Results[1].cpm = ServerBids[1].price
       /\ Results[1].mediaType = "banner"
       /\ Results[1].ad = ServerBids[1].adm )

\* C3: imp.id is params.id left-padded with '0' to at least 3 characters when
\* params.id and params.siteId are both present and non-empty, and
\* "bidid-" followed by the bid id in every other case.
C3_ImpIdRule ==
  Built =>
    \A k \in 1..Len(BuiltBidRequests) :
      LET b == BuiltBidRequests[k]
      IN IF HasExplicitParams(b)
           THEN IsZeroPadded(BuiltImps[k].id, b.params.items[1].id)
           ELSE BuiltImps[k].id = "bidid-" \o b.bidId

\* reached: a request built from a short explicit id (padded), a long one
\* (kept) and a bid request that has a site id but an empty id (fallback)
C3_Witness ==
  /\ Built
  /\ Len(BuiltBidRequests) = 2
  /\ BuiltBidRequests[1].params = ExplicitParams("", "7")
  /\ BuiltImps[1].id = "bidid-b1"
  /\ BuiltBidRequests[2].params = ExplicitParams("5", "7")
  /\ BuiltImps[2].id = "005"

\* C4 as stated: the imps correspond 1:1 to the bid requests and all imp.id
\* values are pairwise distinct, explicit params included.
C4_AllImpIdsDistinct ==
  Built =>
    /\ Len(BuiltImps) = Len(BuiltBidRequests)
    /\ \A j, k \in 1..Len(BuiltImps) : j # k => BuiltImps[j].id # BuiltImps[k].id

\* C4, amended: the imps correspond 1:1, in order, to the bid requests (tagid
\* is the ad-unit code); the imp.id values of bid requests that fall back to
\* "bidid-" + bid id are pairwise distinct, and two bid requests with explicit
\* params share an imp.id exactly when their params.id pad to the same string.
C4_ImpIdsDistinctUnlessSameExplicitId ==
  Built =>
    /\ Len(BuiltImps) = Len(BuiltBidRequests)
    /\ \A k \in 1..Len(BuiltImps) : BuiltImps[k].tagid = BuiltBidRequests[k].adUnitCode
    /\ \A j, k \in 1..Len(BuiltImps) :
         LET bj == BuiltBidRequests[j]
             bk == BuiltBidRequests[k]
         IN /\ (j # k /\ ~HasExplicitParams(bj) /\ ~HasExplicitParams(bk))
                 => BuiltImps[j].id # BuiltImps[k].id
            /\ (HasExplicitParams(bj) /\ HasExplicitParams(bk))
                 => ( BuiltImps[j].id = BuiltImps[k].id
                      <=> IsZeroPadded(BuiltImps[j].id, bk.params.items[1].id) )

\* reached: two bid requests with different bid ids and the same explicit id
\* share one imp.id
C4_Witness ==
  /\ Built
  /\ Len(BuiltImps) = 2
  /\ BuiltBidRequests[1].bidId # BuiltBidRequests[2].bidId
  /\ BuiltBidRequests[1].params = ExplicitParams("5", "7")
  /\ BuiltBidRequests[2].params = ExplicitParams("5", "7")
  /\ BuiltImps[1].id = "005"
  /\ BuiltImps[2].id = "005"

\* the id interpretResponse expects for bid request b, written out
ExpectedImpid(b) ==
  IF HasExplicitParams(b) THEN b.params.items[1].id ELSE "bidid-" \o b.bidId

\* the bid request server bid i is matched to: 0, or the position of the
\* first bid request whose expected id is its impid
MatchOf(i) ==
  LET hits == {k \in 1..Len(AnsweredBidRequests) :
                 ExpectedImpid(AnsweredBidRequests[k]) = ServerBids[i].impid}
  IN IF hits = {} THEN 0 ELSE CHOOSE k \in hits : \A j \in hits : k <= j

\* the results made from server bid i (the model numbers the creative ids)
ResultsOf(i) ==
  {r \in 1..Len(Results) : Results[r].creativeId = ServerBids[i].crid}

Positive(price) == price # None /\ price[1] >= 1

IsPlaceholder(siteId) == siteId # Undefined /\ StartsWith(siteId, "bidid-")
IsResolved(siteId) == siteId \notin {Undefined, ""} /\ ~IsPlaceholder(siteId)

\* site id and slot id interpretResponse resolves for server bid i: the bid's
\* own ext value, else the value resolved for the bid before it, else the
\* value of the request's site object
RECURSIVE ResolvedSiteIdAt(_)
ResolvedSiteIdAt(i) ==
  IF i = 0 THEN call.args.request.data.site.id
  ELSE IF ServerBids[i].ext.siteid # Undefined THEN ServerBids[i].ext.siteid
  ELSE ResolvedSiteIdAt(i - 1)

RECURSIVE ResolvedSlotIdAt(_)
ResolvedSlotIdAt(i) ==
  IF i = 0 THEN call.args.request.data.site.slot
  ELSE IF ServerBids[i].ext.slotid # Undefined THEN ServerBids[i].ext.slotid
  ELSE ResolvedSlotIdAt(i - 1)

\* C5: every result has cpm > 0 and the request id of a bid request whose
\* expected impression id is the impid of the server bid it was made from;
\* a server bid with price 0, a negative price or no price yields no result.
C5_PositivePriceAndMatch ==
  Interpreted =>
    /\ \A r \in 1..Len(Results) :
         /\ Positive(Results[r].cpm)
         /\ \E i \in 1..Len(ServerBids) :
              /\ r \in ResultsOf(i)
              /\ Results[r].cpm = ServerBids[i].price
              /\ \E k \in 1..Len(AnsweredBidRequests) :
                   /\ AnsweredBidRequests[k].bidId = Results[r].requestId
                   /\ ExpectedImpid(AnsweredBidRequests[k]) = ServerBids[i].impid
    /\ \A i \in 1..Len(ServerBids) :
         ~Positive(ServerBids[i].price) => ResultsOf(i) = {}

\* reached: two server bids matched to the second bid request, the first
\* with price 0 and the second with a positive price; only the second is
\* returned
C5_Witness ==
  /\ Interpreted
  /\ Len(ServerBids) = 2
  /\ MatchOf(1) = 2
  /\ MatchOf(2) = 2
  /\ ServerBids[1].price = Some(0)
  /\ Positive(ServerBids[2].price)
  /\ Len(Results) = 1
  /\ ResultsOf(2) = {1}
  /\ Results[1].requestId = AnsweredBidRequests[2].bidId

\* C6: a server bid whose impid is the expected id of no bid request yields
\* no result and no exception, and the other bids of the response are still
\* processed: a matched bid with its own resolved ext.siteid and a positive
\* price is returned for its bid request.
C6_UnmatchedDiscardedPerBid ==
  (Interpreted /\ \E i \in 1..Len(ServerBids) : MatchOf(i) = 0) =>
    /\ ~call.ret.threw
    /\ \A i \in 1..Len(ServerBids) :
         /\ MatchOf(i) = 0 => ResultsOf(i) = {}
         /\ ( /\ MatchOf(i) # 0
              /\ IsResolved(ServerBids[i].ext.siteid)
              /\ Positive(ServerBids[i].price) )
            => \E r \in ResultsOf(i) :
                 Results[r].requestId = AnsweredBidRequests[MatchOf(i)].bidId

\* reached: an unmatched server bid followed by a matched one; the response
\* yields the matched bid alone
C6_Witness ==
  /\ Interpreted
  /\ Len(ServerBids) = 2
  /\ MatchOf(1) = 0
  /\ Positive(ServerBids[1].price)
  /\ MatchOf(2) # 0
  /\ Len(Results) = 1
  /\ ResultsOf(2) = {1}

\* C7: a matched server bid whose resolved site id is a "bidid-*" placeholder
\* yields no result and no exception.
C7_PlaceholderSiteDiscarded ==
  Interpreted =>
    \A i \in 1..Len(ServerBids) :
      (MatchOf(i) # 0 /\ IsPlaceholder(ResolvedSiteIdAt(i)))
        => (ResultsOf(i) = {} /\ ~call.ret.threw)

\* reached: a matched bid with a resolved site id is returned, and a matched
\* bid with a positive price and a placeholder site id is not
C7_Witness ==
  /\ Interpreted
  /\ Len(ServerBids) = 2
  /\ MatchOf(1) # 0
  /\ ResultsOf(1) = {1}
  /\ MatchOf(2) # 0
  /\ Positive(ServerBids[2].price)
  /\ ServerBids[2].ext.siteid = "bidid-b1"
  /\ Len(Results) = 1

\* C8: the site id and slot id resolved for a server bid are its own
\* ext.siteid / ext.slotid when present and otherwise those of the request's
\* site object; stated on the entry stored for the bid request: after the
\* call it holds the values of the last server bid matched to it.
C8_FallbackIsRequestSite ==
  Interpreted =>
    \A i \in 1..Len(ServerBids) :
      LET ext == ServerBids[i].ext
          site == call.args.request.data.site
          siteId == IF ext.siteid # Undefined THEN ext.siteid ELSE site.id
          slotId == IF ext.slotid # Undefined THEN ext.slotid ELSE site.slot
      IN ( /\ MatchOf(i) # 0
           /\ \A j \in (i + 1)..Len(ServerBids) : MatchOf(j) # MatchOf(i)
           /\ IsResolved(siteId) )
         => LET bidId == AnsweredBidRequests[MatchOf(i)].bidId
            IN /\ bidId \in DOMAIN oneCodeDetection
               /\ oneCodeDetection[bidId] = <<siteId, slotId>>

\* C9: when a server bid is matched and its resolved site id is non-empty and
\* no placeholder, the entry of the matched bid request is set to the
\* resolved <<site id, slot id>>; after the call the entry is that of the last
\* such bid, and every result has an entry for its request id.
C9_StoreSetOnMatch ==
  Interpreted =>
    /\ \A k \in 1..Len(AnsweredBidRequests) :
         LET hits == {i \in 1..Len(ServerBids) :
                        MatchOf(i) = k /\ IsResolved(ResolvedSiteIdAt(i))}
             last == CHOOSE i \in hits : \A j \in hits : j <= i
             bidId == AnsweredBidRequests[k].bidId
         IN hits # {} =>
              /\ bidId \in DOMAIN oneCodeDetection
              /\ oneCodeDetection[bidId] = <<ResolvedSiteIdAt(last), ResolvedSlotIdAt(last)>>
    /\ \A r \in 1..Len(Results) : Results[r].requestId \in DOMAIN oneCodeDetection

\* reached: two server bids matched to the first bid request, resolved to
\* different sites; both are returned and the entry is that of the second
C9_Witness ==
  /\ Interpreted
  /\ Len(ServerBids) = 2
  /\ MatchOf(1) = 1
  /\ MatchOf(2) = 1
  /\ ResolvedSiteIdAt(1) = "7"
  /\ ResolvedSiteIdAt(2) = "9"
  /\ Len(Results) = 2
  /\ oneCodeDetection["b1"] = <<"9", "1">>

\* C10: over any sequence of hook calls no request id leaves the store, and
\* the store changes only in interpretResponse.
C10_StoreNeverShrinks ==
  [][ /\ DOMAIN oneCodeDetection \subseteq DOMAIN oneCodeDetection'
      /\ oneCodeDetection' # oneCodeDetection => call'.op = "interpretResponse" ]_vars

\* reached: an entry made by an earlier interpretResponse is still there when
\* a later request without that bid request has been built and answered
C10_Witness ==
  /\ Interpreted
  /\ Len(AnsweredBidRequests) = 1
  /\ "b2" \in DOMAIN oneCodeDetection
  /\ "b1" \in DOMAIN oneCodeDetection
  /\ oneCodeDetection["b1"] # oneCodeDetection["b2"]

\* the last hook call, when it was onBidWon or onTimeout and a payload was sent
Notified == call.op \in {"onBidWon", "onTimeout"} /\ IsSome(call.ret)
NotifiedBids ==
  IF call.op = "onBidWon" THEN call.args.bid[1].items ELSE call.args.timeoutData[1].items
Payload == call.ret[1]

\* what a notified bid reports: the stored entry of its request id when there
\* is one, its own params otherwise
ReportedSiteId(bid) ==
  IF bid.requestId \in DOMAIN oneCodeDetection
    THEN oneCodeDetection[bid.requestId][1]
    ELSE bid.params.items[1].siteId

ReportedSlotId(bid) ==
  IF bid.requestId \in DOMAIN oneCodeDetection
    THEN oneCodeDetection[bid.requestId][2]
    ELSE bid.params.items[1].id

IsReported(v) == v \notin {Undefined, ""}

\* C11: the payload of onBidWon / onTimeout lists, bid by bid, the site id and
\* slot id stored for the bid's request id when the store has an entry for it
\* (never the bid's own params then), the bid's own params.siteId / params.id
\* when it has none, and nothing for a value that is undefined; tagid lists
\* the ad-unit code of every bid.
C11_NotificationReportsStore ==
  Notified =>
    /\ Payload.siteId =
         SelectSeq([i \in 1..Len(NotifiedBids) |-> ReportedSiteId(NotifiedBids[i])],
                   IsReported)
    /\ Payload.slotId =
         SelectSeq([i \in 1..Len(NotifiedBids) |-> ReportedSlotId(NotifiedBids[i])],
                   IsReported)
    /\ Payload.tagid = [i \in 1..Len(NotifiedBids) |-> NotifiedBids[i].adUnitCode]

\* reached: a timeout of two bids; the first has params of its own and a
\* stored entry that differs from them, the second has neither
C11_Witness ==
  /\ call.op = "onTimeout"
  /\ IsSome(call.ret)
  /\ Len(NotifiedBids) = 2
  /\ NotifiedBids[1].requestId = "b1"
  /\ NotifiedBids[1].params.items[1] = [id |-> "001", siteId |-> "7"]
  /\ "b1" \in DOMAIN oneCodeDetection
  /\ oneCodeDetection["b1"] = <<"9", "1">>
  /\ NotifiedBids[2].requestId = "b2"
  /\ NotifiedBids[2].params.items[1] = EmptyParams
  /\ "b2" \notin DOMAIN oneCodeDetection
  /\ Payload.siteId = <<"9">>
  /\ Payload.slotId = <<"1">>
  /\ Payload.tagid = <<"div-1", "div-2">>

\* 'WxH' of the size of largest area in a size list, the last such on a tie;
\* '1x1' for an empty list
LargestOf(sizes) ==
  IF Len(sizes) = 0 THEN "1x1"
  ELSE LET Area(i) == sizes[i][1] * sizes[i][2]
           m == CHOOSE i \in 1..Len(sizes) :
                  /\ \A j \in 1..Len(sizes) : Area(j) <= Area(i)
                  /\ \A j \in (i + 1)..Len(sizes) : Area(j) < Area(i)
       IN ToString(sizes[m][1]) \o "x" \o ToString(sizes[m][2])

\* the size part of a label 'WxH_n'
LabelSize(label) ==
  SubSeq(label, 1, (CHOOSE i \in 1..Len(label) : SubSeq(label, i, i) = "_") - 1)

\* the ad units labelled so far whose label is of size S
LabelledWith(units, S) == {u \in DOMAIN units : LabelSize(units[u]) = S}

\* C12: in every build, an imp of an ad unit that already has a label gets
\* that label again as pbsize; an imp of an ad unit built for the first time
\* gets "S_k", S being the largest size of its bid request and k - 1 the
\* number of distinct ad units first built with largest size S before it
\* (in earlier builds, or earlier in this one).
C12_SizeLabels ==
  [][ (call'.op = "buildRequests" /\ IsSome(call'.ret)) =>
        LET reqs == call'.args.validBidRequests[1]
            imps == call'.ret[1].data.imp
            First(c) == CHOOSE j \in 1..Len(reqs) :
                          /\ reqs[j].adUnitCode = c
                          /\ \A i \in 1..(j - 1) : reqs[i].adUnitCode # c
        IN \A k \in 1..Len(reqs) :
             LET code == reqs[k].adUnitCode
                 S == LargestOf(reqs[k].sizes)
                 newBefore == {reqs[j].adUnitCode :
                                 j \in {i \in 1..(k - 1) :
                                          /\ reqs[i].adUnitCode \notin DOMAIN adUnitsCalled
                                          /\ First(reqs[i].adUnitCode) = i
                                          /\ LargestOf(reqs[i].sizes) = S}}
                 n == Cardinality(LabelledWith(adUnitsCalled, S)) + Cardinality(newBefore) + 1
             IN IF code \in DOMAIN adUnitsCalled
                  THEN imps[k].pbsize = adUnitsCalled[code]
                ELSE IF First(code) < k
                  THEN imps[k].pbsize = imps[First(code)].pbsize
                ELSE imps[k].pbsize = S \o "_" \o ToString(n) ]_vars

\* reached: two distinct ad units first built with largest size 300x250,
\* labelled 300x250_1 and 300x250_2
C12_Witness ==
  /\ Built
  /\ Len(BuiltImps) = 2
  /\ BuiltBidRequests[1].adUnitCode = "div-1"
  /\ BuiltBidRequests[2].adUnitCode = "div-2"
  /\ BuiltBidRequests[2].sizes = << <<300, 250>>, <<728, 90>> >>
  /\ BuiltImps[1].pbsize = "300x250_1"
  /\ BuiltImps[2].pbsize = "300x250_2"
  /\ adSizesCalled["300x250"] = 2

\* C13: each per-size counter is the number of distinct ad units whose label
\* is of that size; no counter ever decreases or disappears, no label ever
\* changes, and a build whose ad units all have labels already changes no
\* counter, whatever its sizes.
C13_LabelsFirstSeenWins ==
  /\ [](\A S \in DOMAIN adSizesCalled \cup {LabelSize(adUnitsCalled[u]) : u \in DOMAIN adUnitsCalled} :
         /\ S \in DOMAIN adSizesCalled
         /\ adSizesCalled[S] = Cardinality(LabelledWith(adUnitsCalled, S)))
  /\ [][ /\ \A S \in DOMAIN adSizesCalled :
             S \in DOMAIN adSizesCalled' /\ adSizesCalled'[S] >= adSizesCalled[S]
         /\ \A u \in DOMAIN adUnitsCalled :
             u \in DOMAIN adUnitsCalled' /\ adUnitsCalled'[u] = adUnitsCalled[u]
         /\ ( /\ call'.op = "buildRequests"
              /\ IsSome(call'.ret)
              /\ \A k \in 1..Len(call'.args.validBidRequests[1]) :
                   call'.args.validBidRequests[1][k].adUnitCode \in DOMAIN adUnitsCalled )
            => adSizesCalled' = adSizesCalled ]_vars

\* reached: an ad unit labelled 300x250_1 is built again with largest size
\* 300x600; it keeps its label and no counter for 300x600 exists
C13_Witness ==
  /\ Built
  /\ Len(BuiltImps) = 1
  /\ LargestOf(BuiltBidRequests[1].sizes) = "300x600"
  /\ BuiltImps[1].pbsize = "300x250_1"
  /\ adUnitsCalled["div-1"] = "300x250_1"
  /\ "300x600" \notin DOMAIN adSizesCalled

MaxOf(S) == CHOOSE m \in S : \A x \in S : x <= m

\* the floor an answer of the floor function counts as
Counted(answer) == IF answer = None THEN 0 ELSE answer[1]

\* max(banner floor, native floor, video floor) of bid request b
ExpectedFloor(b) ==
  IF b.getFloor = None THEN 0
  ELSE LET table == b.getFloor[1]
           banner == IF Len(b.sizes) = 0 THEN 0
                     ELSE MaxOf({Counted(table.banner[SizeKey(b.sizes[i])]) :
                                   i \in 1..Len(b.sizes)})
       IN MaxOf({banner, Counted(table.native), Counted(table.video)})

\* C14: imp.bidfloor of every bid request is the maximum of its banner floor
\* (the maximum of the floors queried per size, 0 without sizes), its native
\* floor and its video floor, an answer without a floor counting as 0; it is
\* 0 for a bid request without a floor function; imp.bidfloorcur is the
\* configured ad-server currency, or the default currency when none is set.
C14_HighestFloor ==
  Built =>
    \A k \in 1..Len(BuiltBidRequests) :
      /\ BuiltImps[k].bidfloor = ExpectedFloor(BuiltBidRequests[k])
      /\ BuiltImps[k].bidfloorcur =
           IF call.args.adServerCurrency \in {Undefined, ""}
             THEN "PLN" ELSE call.args.adServerCurrency

\* reached: per-size floors 0.8 and none (the first size has the higher one),
\* no native floor and a video floor of 0.6 give 0.8, in the configured
\* currency; a second bid request without sizes, with a video floor of 0.3,
\* gets 0.3
C14_Witness ==
  /\ Built
  /\ Len(BuiltImps) = 2
  /\ call.args.adServerCurrency = "USD"
  /\ BuiltBidRequests[1].sizes = << <<300, 250>>, <<728, 90>> >>
  /\ BuiltBidRequests[1].getFloor = Some(FloorTable(Some(8), None, None, Some(6)))
  /\ BuiltImps[1].bidfloor = 8
  /\ BuiltImps[1].bidfloorcur = "USD"
  /\ BuiltBidRequests[2].sizes = <<>>
  /\ BuiltBidRequests[2].getFloor # None
  /\ BuiltImps[2].bidfloor = 3
  /\ BuiltImps[2].bidfloorcur = "USD"

\* adm begins with an XML prolog
IsXmlProlog(adm) == adm # Undefined /\ Len(adm) >= 5 /\ SubSeq(adm, 1, 5) = "<?xml"

\* adm is the text of a JSON object whose root key is "native"
IsNativeJson(adm) ==
  adm \in {ADM_NATIVE, ADM_NATIVE_SPACED, ADM_NATIVE_NO_ASSETS, ADM_NATIVE_NULL}

\* C15: every result has the media kind its server bid calls for, in priority
\* order: video when adm begins with an XML prolog (vastXml = vastContent =
\* adm, vastUrl = ext.cache), else native when the bid has a structured native
\* payload or adm is JSON whose root key is "native", else banner.
C15_MediaKindPriority ==
  Interpreted =>
    \A i \in 1..Len(ServerBids) :
      \A r \in ResultsOf(i) :
        LET b == ServerBids[i]
            res == Results[r]
        IN IF IsXmlProlog(b.adm)
             THEN /\ res.mediaType = "video"
                  /\ res.vastXml = b.adm
                  /\ res.vastContent = b.adm
                  /\ res.vastUrl = b.ext.cache
           ELSE IF b.admNative # None \/ IsNativeJson(b.adm)
             THEN res.mediaType = "native"
           ELSE res.mediaType = "banner"

\* C18 as stated: no call of buildRequests or interpretResponse throws.
C18_NoExceptionPropagates ==
  call.op \in {"buildRequests", "interpretResponse"} =>
    ~(IF call.op = "buildRequests" THEN call.threw ELSE call.ret.threw)

\* server bid b passes the adapter's native test and not its video test
ClassifiedNative(b) ==
  /\ ~IsXmlProlog(b.adm)
  /\ \/ b.admNative # None
     \/ /\ b.adm # Undefined
        /\ Len(b.adm) >= 9
        /\ SubSeq(b.adm, 1, 9) \in {"{\"native\"", "{'native'", "{\"native'", "{'native\""}

\* the native payload of b cannot be parsed, has no native root object or has
\* no asset list
MalformedNative(b) ==
  IF b.admNative # None
    THEN b.admNative[1].assets = None
    ELSE b.adm \in {ADM_NATIVE_QUOTES, ADM_NATIVE_NO_ROOT, ADM_NATIVE_NULL, ADM_NATIVE_NO_ASSETS}

\* C16: a matched native bid with a malformed payload yields no result and no
\* exception, and the other bids of the response are still processed: a
\* matched well-formed native bid with a positive price is returned with
\* width = height = 1 whatever its w / h, and a matched banner or video bid
\* with a positive price is returned too.
C16_MalformedNativeZeroPrice ==
  Interpreted =>
    /\ (\E i \in 1..Len(ServerBids) : ClassifiedNative(ServerBids[i])) => ~call.ret.threw
    /\ \A i \in 1..Len(ServerBids) :
         LET b == ServerBids[i]
             emitted == MatchOf(i) # 0 /\ IsResolved(ResolvedSiteIdAt(i)) /\ Positive(b.price)
         IN /\ (ClassifiedNative(b) /\ MalformedNative(b)) => ResultsOf(i) = {}
            /\ (ClassifiedNative(b) /\ ~MalformedNative(b) /\ emitted) =>
                 \E r \in ResultsOf(i) :
                   /\ Results[r].mediaType = "native"
                   /\ Results[r].native # None
                   /\ Results[r].width = Some(1)
                   /\ Results[r].height = Some(1)
            /\ (~ClassifiedNative(b) /\ emitted) => ResultsOf(i) # {}

\* reached: a native bid without an asset list followed by a well-formed
\* native bid of 300x250; only the second is returned, as 1x1
C16_Witness ==
  /\ Interpreted
  /\ Len(ServerBids) = 2
  /\ ServerBids[1].adm = ADM_NATIVE_NO_ASSETS
  /\ ServerBids[2].adm = ADM_NATIVE
  /\ ServerBids[2].w = Some(300)
  /\ ServerBids[2].h = Some(250)
  /\ Len(Results) = 1
  /\ ResultsOf(2) = {1}
  /\ Results[1].mediaType = "native"
  /\ Results[1].width = Some(1)
  /\ Results[1].height = Some(1)

\* the role the fixed map gives an asset id
MappedRole(id) ==
  CASE id = 0 -> "title"
    [] id = 1 -> "cta"
    [] id = 2 -> "icon"
    [] id = 3 -> "image"
    [] id = 4 -> "body"
    [] id = 5 -> "sponsoredBy"
    [] OTHER -> Undefined

\* C17: for every asset of a structured native payload, getNativeAssetType
\* gives 'image' when the id is above 10, the role of the fixed map for ids
\* 0..5 and no role for ids 6..10; in the native ad made from a payload with
\* one asset, the image URL of an asset with an id above 10 is in the image
\* field and never in the icon field, whatever image type the asset carries,
\* and that of an asset with a lower id and no image type is in the field of
\* its mapped role, if that is image or icon, and in neither otherwise.
C17_ExtraImageIds ==
  Interpreted =>
    \A i \in 1..Len(ServerBids) :
      (ServerBids[i].admNative # None /\ ServerBids[i].admNative[1].assets # None) =>
        LET assets == ServerBids[i].admNative[1].assets[1]
        IN /\ \A a \in 1..Len(assets) :
                getNativeAssetType(assets[a].id) =
                  IF assets[a].id > 10 THEN "image" ELSE MappedRole(assets[a].id)
           /\ Len(assets) = 1 =>
                \A r \in ResultsOf(i) :
                  LET native == Results[r].native[1]
                      asset == assets[1]
                  IN /\ asset.id > 10 =>
                          (native.image = asset.imgUrl /\ native.icon = Undefined)
                     /\ (asset.id <= 10 /\ asset.imgType = None) =>
                          /\ native.image = IF MappedRole(asset.id) = "image"
                                              THEN asset.imgUrl ELSE Undefined
                          /\ native.icon = IF MappedRole(asset.id) = "icon"
                                             THEN asset.imgUrl ELSE Undefined

\* reached: an asset with id 11 and the image type of an icon is returned as
\* the image of the native ad
C17_Witness ==
  /\ Interpreted
  /\ Len(ServerBids) >= 1
  /\ ServerBids[1].admNative = OneAssetPayload(11, Some(1))
  /\ ResultsOf(1) = {1}
  /\ Results[1].native[1].image = "https://img.example/i.png"
  /\ Results[1].native[1].icon = Undefined

\* hook call c is buildRequests without bid requests
EmptyBuild(c) ==
  /\ c.op = "buildRequests"
  /\ (c.args.validBidRequests = None \/ Len(c.args.validBidRequests[1]) = 0)

\* C19: buildRequests with an absent or empty list of bid requests returns
\* false (no request, no exception) and leaves the ad-unit labels, the size
\* counters, the page view and the store as they were.
C19_EmptyBuildDoesNothing ==
  [][ EmptyBuild(call') =>
        /\ call'.ret = None
        /\ ~call'.threw
        /\ adUnitsCalled' = adUnitsCalled
        /\ adSizesCalled' = adSizesCalled
        /\ pageView' = pageView
        /\ oneCodeDetection' = oneCodeDetection ]_vars

\* reached: buildRequests([]) returned false when labels, counters, a page
\* view and a store entry existed, on a page path other than the stored one
C19_Witness ==
  /\ EmptyBuild(call)
  /\ call.args.validBidRequests = Some(<<>>)
  /\ call.ret = None
  /\ DOMAIN adUnitsCalled # {}
  /\ DOMAIN adSizesCalled # {}
  /\ pageView.id # Undefined
  /\ call.args.pathname # pageView.path
  /\ DOMAIN oneCodeDetection # {}

\* C20: a build that returns a request stores the current page path, keeps
\* the page-view id when there is one and the stored path is the current
\* path, and takes a newly generated id otherwise; the request carries the
\* stored id; no other hook changes id or path, and the payload of onBidWon
\* and onTimeout carries the stored id as pvid.
C20_PageViewId ==
  [][ /\ (call'.op = "buildRequests" /\ IsSome(call'.ret)) =>
           /\ pageView'.path = call'.args.pathname
           /\ pageView'.id =
                IF pageView.id = Undefined \/ pageView.path # call'.args.pathname
                  THEN call'.args.random
                  ELSE pageView.id
           /\ call'.ret[1].data.pvid = pageView'.id
      /\ call'.op # "buildRequests" =>
           (pageView'.id = pageView.id /\ pageView'.path = pageView.path)
      /\ (call'.op \in {"onBidWon", "onTimeout"} /\ IsSome(call'.ret)) =>
           call'.ret[1].pvid = pageView.id ]_vars

\* reached: a build on the stored path kept the stored id although
\* Math.random() gave another value
C20_Witness ==
  /\ Built
  /\ pageView.path = call.args.pathname
  /\ pageView.id = "pv2"
  /\ call.args.random = "pv1"
  /\ call.ret[1].data.pvid = "pv2"

\* the server bids of the interpretResponse call c
ServerBidsOf(c) ==
  LET body == c.args.serverResponse.body
  IN IF IsSome(body) /\ IsSome(body[1].seatbid)
       THEN FlattenSeatbid(body[1].seatbid[1], 1)
       ELSE <<>>

\* <<site id, slot id>> resolved for the i-th of the server bids sb, site
\* being the request's site object
RECURSIVE ResolvedAt(_, _, _)
ResolvedAt(sb, site, i) ==
  IF i = 0 THEN <<site.id, site.slot>>
  ELSE LET prev == ResolvedAt(sb, site, i - 1)
       IN << IF sb[i].ext.siteid # Undefined THEN sb[i].ext.siteid ELSE prev[1],
             IF sb[i].ext.slotid # Undefined THEN sb[i].ext.slotid ELSE prev[2] >>

\* the server bids of call c that write the entry of request id bidId:
\* matched to the bid request with that id, with a resolved site id,
\* whatever their price
WritersOf(c, bidId) ==
  LET sb == ServerBidsOf(c)
      bids == c.args.request.bidderRequest.bids
  IN {i \in 1..Len(sb) :
        /\ \E k \in 1..Len(bids) :
             /\ ExpectedImpid(bids[k]) = sb[i].impid
             /\ \A j \in 1..(k - 1) : ExpectedImpid(bids[j]) # sb[i].impid
             /\ bids[k].bidId = bidId
        /\ IsResolved(ResolvedAt(sb, c.args.request.data.site, i)[1])}

\* the entry the last of a non-empty set of server bids of call c writes
WrittenBy(c, writers) ==
  ResolvedAt(ServerBidsOf(c), c.args.request.data.site,
             CHOOSE i \in writers : \A j \in writers : j <= i)

\* C21: interpretResponse writes the entry of a request id for every server
\* bid that is matched to it and has a resolved, non-placeholder site id,
\* whether or not the bid is returned (a price that is missing or not > 0, or
\* a native bid zeroed for a malformed payload, does not prevent the write);
\* the entry after the call is that of the last such bid. The entry of a
\* request id that has only unmatched bids or bids with an unresolved site
\* is the same before and after the call.
C21_StoreWrittenBeforePriceCheck ==
  [][ call'.op = "interpretResponse" =>
        \A bidId \in DOMAIN oneCodeDetection \cup DOMAIN oneCodeDetection'
                      \cup {BidId(k) : k \in 1..MaxBids} :
          LET writers == WritersOf(call', bidId)
          IN IF writers # {}
               THEN /\ bidId \in DOMAIN oneCodeDetection'
                    /\ oneCodeDetection'[bidId] = WrittenBy(call', writers)
               ELSE /\ bidId \in DOMAIN oneCodeDetection' <=> bidId \in DOMAIN oneCodeDetection
                    /\ bidId \in DOMAIN oneCodeDetection =>
                         oneCodeDetection'[bidId] = oneCodeDetection[bidId] ]_vars

\* reached: a response with a price-0 bid for the first bid request and a
\* native bid without assets for the second, both with a resolved site;
\* nothing is returned and both entries are written
C21_Witness ==
  /\ Interpreted
  /\ Len(ServerBids) = 2
  /\ MatchOf(1) = 1
  /\ ServerBids[1].price = Some(0)
  /\ ServerBids[1].ext.siteid = "9"
  /\ MatchOf(2) = 2
  /\ ServerBids[2].adm = ADM_NATIVE_NO_ASSETS
  /\ Positive(ServerBids[2].price)
  /\ ServerBids[2].ext.siteid = "7"
  /\ Results = <<>>
  /\ oneCodeDetection["b1"] = <<"9", "1">>
  /\ oneCodeDetection["b2"] = <<"7", "2">>

\* the last hook call, when it was a hook of the adf adapter
AdfBuilt == call.op = "adf.buildRequests"
AdfInterpreted == call.op = "adf.interpretResponse"
AdfBids == call.args.request.bids
AdfResults == call.ret.results

\* the server bids of the answered adf response, in the order of
\* seatbid[].bid[]
AdfServerBids == ServerBidsOf(call)

\* the server bids whose impid is the number k
AdfBidsFor(k) == {i \in 1..Len(AdfServerBids) : AdfServerBids[i].impid = Some(k)}

\* the positions of the bid requests that have a server bid
AdfAnswered == {k \in 1..Len(AdfBids) : AdfBidsFor(k) # {}}

\* the r-th smallest of the positions in S
NthOf(S, r) == CHOOSE k \in S : Cardinality({j \in S : j <= k}) = r

\* C22: adf buildRequests gives the k-th bid request the imp with id k and
\* hands the bid requests on in their order. adf interpretResponse returns
\* nothing at all without a response body; otherwise it returns exactly one
\* result for every bid request whose position k is the impid of some server
\* bid, in bid-request order, with that request's bidId as requestId and the
\* price and creative of the last server bid with impid k; server bids with
\* any other impid, and bid requests without a server bid, yield nothing.
C22_AdfPositionalCorrelation ==
  /\ AdfBuilt =>
       /\ Len(call.ret.data.imp) = Len(call.args.validBidRequests)
       /\ Len(call.ret.bids) = Len(call.args.validBidRequests)
       /\ \A k \in 1..Len(call.args.validBidRequests) :
            /\ call.ret.data.imp[k].id = k
            /\ call.ret.bids[k].bidId = call.args.validBidRequests[k].bidId
  /\ (AdfInterpreted /\ call.args.serverResponse.body = None) =>
       (AdfResults = None /\ ~call.ret.threw)
  /\ (AdfInterpreted /\ call.args.serverResponse.body # None /\ ~call.ret.threw) =>
       /\ AdfResults # None
       /\ Len(AdfResults[1]) = Cardinality(AdfAnswered)
       /\ \A r \in 1..Len(AdfResults[1]) :
            LET k == NthOf(AdfAnswered, r)
                last == CHOOSE i \in AdfBidsFor(k) : \A j \in AdfBidsFor(k) : j <= i
            IN /\ AdfResults[1][r].requestId = AdfBids[k].bidId
               /\ AdfResults[1][r].creativeId = AdfServerBids[last].crid
               /\ AdfResults[1][r].cpm = AdfServerBids[last].price

\* reached: two bid requests and two server bids, both with impid 2; the one
\* result is that of the second server bid for the second bid request, and
\* the first bid request has none
C22_Witness ==
  /\ AdfInterpreted
  /\ Len(AdfBids) = 2
  /\ Len(AdfServerBids) = 2
  /\ AdfServerBids[1].impid = Some(2)
  /\ AdfServerBids[1].price = Some(15)
  /\ AdfServerBids[2].impid = Some(2)
  /\ AdfResults # None
  /\ Len(AdfResults[1]) = 1
  /\ AdfResults[1][1].requestId = AdfBids[2].bidId
  /\ AdfResults[1][1].creativeId = "cr2"

====
